---------------------------- MODULE Spec2Model ----------------------------
(***************************************************************************)
(* Fog::ByteSIMD - bytes packed in 32-bit and 64-bit unsigned integers.    *)
(*                                                                         *)
(* A machine word is modelled as the little-endian sequence of its bytes:  *)
(* a uint32_t is <<B0, B1, B2, B3>>, a uint64_t has eight bytes.  All      *)
(* arithmetic wraps at the width of the word, as the C++ unsigned types    *)
(* do.  Every function of the source is an operator of the same name that  *)
(* follows the source statement by statement.                              *)
(***************************************************************************)
EXTENDS Integers, Sequences, FiniteSets, TLC

VARIABLES fn, args, ret, _ptr, pc, v_get, calls, creates

vars == <<fn, args, ret, _ptr, pc, v_get, calls, creates>>

-----------------------------------------------------------------------------
(* Machine words: uint32_t / uint64_t arithmetic.                          *)

\* x & y of two naturals, bit by bit.
RECURSIVE AndN(_, _)
AndN(x, y) ==
  IF x = 0 \/ y = 0 THEN 0
  ELSE (x % 2) * (y % 2) + 2 * AndN(x \div 2, y \div 2)

\* Byte i (from 1, the lowest) of word w; zero outside the word.
ByteAt(w, i) == IF i >= 1 /\ i <= Len(w) THEN w[i] ELSE 0

\* The n-byte word holding the natural v (v < 2^31).
Word(v, n) == [i \in 1..n |-> (v \div (256 ^ (i - 1))) % 256]

\* A uint32_t from a natural below 2^31.
U32(v) == Word(v, 4)

\* A uint32_t written as its four hexadecimal byte pairs, highest first.
Hex32(b3, b2, b1, b0) == <<b0, b1, b2, b3>>

\* A uint64_t written as its eight bytes, highest first.
Hex64(b7, b6, b5, b4, b3, b2, b1, b0) == <<b0, b1, b2, b3, b4, b5, b6, b7>>

\* (uint64_t)x of a uint32_t.
ToU64(w) == [i \in 1..8 |-> ByteAt(w, i)]

\* (uint32_t)x of a uint64_t.
ToU32(w) == [i \in 1..4 |-> ByteAt(w, i)]

\* x & y for every pair of bytes, computed once.
ByteAnd == [x \in 0..255 |-> [y \in 0..255 |-> AndN(x, y)]]

\* a & b, a | b and a ^ b of two words of the same width, byte by byte.
WAnd(a, b) == [i \in 1..Len(a) |-> ByteAnd[a[i]][b[i]]]
WOr(a, b)  == [i \in 1..Len(a) |-> a[i] + b[i] - ByteAnd[a[i]][b[i]]]
WXor(a, b) == [i \in 1..Len(a) |-> a[i] + b[i] - 2 * ByteAnd[a[i]][b[i]]]

\* a >> n for a count n below the width of a.  A count of the width or more
\* is undefined in C++ and WShr has no value for it: the function whose count
\* is an argument lists the outcomes (b32_1x2ShiftRightU).
WShr(a, n) ==
  LET m == CHOOSE k \in {n} : k < 8 * Len(a)
      q == m \div 8
      r == m % 8
  IN [i \in 1..Len(a) |->
        (ByteAt(a, i + q) \div (2 ^ r))
        + ((ByteAt(a, i + q + 1) * (2 ^ (8 - r))) % 256)]

\* a << n for a count n below the width of a; the bits shifted out at the
\* top are lost.  A count of the width or more is undefined in C++ and WShl
\* has no value for it: the function whose count is an argument lists the
\* outcomes (b32_1x2ShiftLeftU).
WShl(a, n) ==
  LET m == CHOOSE k \in {n} : k < 8 * Len(a)
      q == m \div 8
      r == m % 8
  IN [i \in 1..Len(a) |->
        ((ByteAt(a, i - q) * (2 ^ r)) % 256)
        + (ByteAt(a, i - q - 1) \div (2 ^ (8 - r)))]

\* a + b, wrapping at the width of a.
RECURSIVE AddFrom(_, _, _, _)
AddFrom(a, b, i, carry) ==
  IF i > Len(a) THEN <<>>
  ELSE LET s == a[i] + b[i] + carry
       IN <<s % 256>> \o AddFrom(a, b, i + 1, s \div 256)

WAdd(a, b) == AddFrom(a, b, 1, 0)

\* a - b, wrapping at the width of a.
RECURSIVE SubFrom(_, _, _, _)
SubFrom(a, b, i, borrow) ==
  IF i > Len(a) THEN <<>>
  ELSE LET d == a[i] - b[i] - borrow
       IN IF d < 0 THEN <<d + 256>> \o SubFrom(a, b, i + 1, 1)
                   ELSE <<d>> \o SubFrom(a, b, i + 1, 0)

WSub(a, b) == SubFrom(a, b, 1, 0)

\* a * b, wrapping at the width of a (schoolbook, byte by byte).
RECURSIVE ColumnSum(_, _, _, _)
ColumnSum(a, b, k, i) ==
  IF i > k THEN 0 ELSE a[i] * b[k - i + 1] + ColumnSum(a, b, k, i + 1)

RECURSIVE MulFrom(_, _, _, _)
MulFrom(a, b, k, carry) ==
  IF k > Len(a) THEN <<>>
  ELSE LET s == ColumnSum(a, b, k, 1) + carry
       IN <<s % 256>> \o MulFrom(a, b, k + 1, s \div 256)

WMul(a, b) == MulFrom(a, b, 1, 0)

-----------------------------------------------------------------------------
(* Constants.                                                              *)

\* The largest value of a BYTE (a channel): BYTE1x1MASK as a number.
ByteMax == 255

Byte == 0..ByteMax

BYTE1x1HALF == Hex32(\h00, \h00, \h00, \h80)
BYTE1x1MASK == Hex32(\h00, \h00, \h00, \hFF)

BYTE1x2HALF == Hex32(\h00, \h80, \h00, \h80)
BYTE1x2MASK == Hex32(\h00, \hFF, \h00, \hFF)

\* BYTE1x2MASK_PLUS_ONE without the 0x100 of lane B0.
BYTE1x2MASK_PLUS_ONE_NoLowLane == Hex32(\h10, \h00, \h00, \h00)

\* Packed two full-BYTE masks+1: the source writes 0x10000100U.
BYTE1x2MASK_PLUS_ONE == Hex32(\h10, \h00, \h01, \h00)

BYTE_1x4MASK == Hex64(\h00, \hFF, \h00, \hFF, \h00, \hFF, \h00, \hFF)

\* The builds: FOG_ARCH_BITS is set by the build configuration.
FOG_ARCH_BITS == {32, 64}

-----------------------------------------------------------------------------
(* Reading words as numbers (for words below 2^31 only).                   *)

ToNat(w) == w[1] + 256 * w[2] + 65536 * w[3] + 16777216 * w[4]

\* The 16-bit lanes of a b32_1x2 [00.B1.00.B0], headroom included.
LaneB0(w) == w[1] + 256 * w[2]
LaneB1(w) == w[3] + 256 * w[4]

\* The b32_1x2 holding hi in lane B1 and lo in lane B0.
B32_1x2(hi, lo) == Hex32(0, hi, 0, lo)

Min(p, q) == IF p < q THEN p ELSE q
Max(p, q) == IF p > q THEN p ELSE q
Abs(p) == IF p < 0 THEN 0 - p ELSE p

\* t / 255 rounded to the nearest integer (255 is odd: there are no ties).
Round255(t) == (2 * t + 255) \div 510

-----------------------------------------------------------------------------
(* U32 - scalar functions.                                                 *)

\* u32Addus without the line that sets all the bits on overflow.
u32Addus_Wrapping(x, y) == WAnd(WAdd(x, y), U32(\hFF))

\* Result = min(x + y, 255), the branch-free form
\* (FOG_BYTESIMD_USE_CONDITIONAL_INSTRUCTIONS is not defined).
u32Addus(x, y) ==
  LET x1 == WAdd(x, y)
      x2 == WOr(x1, WSub(U32(\h100), WAnd(WShr(x1, 8), U32(\hFF))))
  IN WAnd(x2, U32(\hFF))

\* u32Subus taking the borrow from bit 16 instead of bit 24.
u32Subus_Shift16(x, y) ==
  LET x1 == WSub(x, y)
  IN WAnd(x1, WXor(WShr(x1, 16), U32(\hFF)))

\* Result = max(x - y, 0), the branch-free form.
u32Subus(x, y) ==
  LET x1 == WSub(x, y)
  IN WAnd(x1, WXor(WShr(x1, 24), U32(\hFF)))

\* u32MulDiv255 with x << 8 for x >> 8.
u32MulDiv255_ShiftLeft(x, a) ==
  LET x1 == WMul(x, a)
  IN WShr(WAdd(WAdd(x1, WShl(x1, 8)), U32(\h80)), 8)

\* u32MulDiv255 without the half (0x80) added before the shift.
u32MulDiv255_NoHalf(x, a) ==
  LET x1 == WMul(x, a)
  IN WShr(WAdd(x1, WShr(x1, 8)), 8)

\* Result = (x * a) / 255
u32MulDiv255(x, a) ==
  LET x1 == WMul(x, a)
  IN WShr(WAdd(WAdd(x1, WShr(x1, 8)), U32(\h80)), 8)

\* u32Lerp255 weighting y by 256 - a, as u32Lerp256 does.
u32Lerp255_Weight256(x, y, a) ==
  LET x1 == WMul(x, a)
      y1 == WMul(y, WSub(U32(256), a))
      x2 == WAdd(x1, y1)
  IN WShr(WAdd(WAdd(x2, WShr(x2, 8)), U32(\h80)), 8)

\* Result = {(x * a) + (y * (255 - a))} / 255
u32Lerp255(x, y, a) ==
  LET x1 == WMul(x, a)
      y1 == WMul(y, WXor(a, U32(\hFF)))
      x2 == WAdd(x1, y1)
  IN WShr(WAdd(WAdd(x2, WShr(x2, 8)), U32(\h80)), 8)

\* u32Negate255 computing 256 - x, as u32Negate256 does.
u32Negate255_As256(x) == WSub(U32(256), x)

\* Result = 255 - x
u32Negate255(x) == WXor(x, U32(\hFF))

-----------------------------------------------------------------------------
(* B32_1x2 - pack, unpack, get.                                            *)

\* b32_2x2Pack0213 shifting a1 by a whole lane.
b32_2x2Pack0213_Shift16(a0, a1) == WOr(a0, WShl(a1, 16))

\* dst0 = a0 | (a1 << 8)
b32_2x2Pack0213(a0, a1) == WOr(a0, WShl(a1, 8))

\* <<dst0, dst1>>: bytes 0 and 2 of a0, and bytes 1 and 3 of a0.
b32_2x2Unpack0213(a0) ==
  LET dst0 == a0
      dst1 == WShr(a0, 8)
  IN <<WAnd(dst0, BYTE1x2MASK), WAnd(dst1, BYTE1x2MASK)>>

b32_1x2GetB0(a0) == WAnd(a0, U32(\hFF))
b32_1x2GetB1(a0) == WShr(a0, 16)

-----------------------------------------------------------------------------
(* B32_1x2 - saturate, add, multiply and divide.                           *)

\* dst0 = min(dst0, 255) in each lane
b32_1x2Saturate(dst0) ==
  LET d == WOr(dst0, WSub(BYTE1x2MASK_PLUS_ONE,
                          WAnd(WShr(dst0, 8), BYTE1x2MASK)))
  IN WAnd(d, Hex32(\h00, \hFF, \h00, \hFF))

\* dst0 = min(a0 + b0, 255)
b32_1x2AddusB32_1x2(a0, b0) == b32_1x2Saturate(WAdd(a0, b0))

\* b32_1x2MulDiv255U without the final & BYTE1x2MASK.
b32_1x2MulDiv255U_NoMask(a0, u) ==
  LET d == WMul(a0, u)
  IN WShr(WAdd(WAdd(d, WAnd(WShr(d, 8), BYTE1x2MASK)), BYTE1x2HALF), 8)

\* dst0 = (a0 * u) / 255
b32_1x2MulDiv255U(a0, u) ==
  LET d == WMul(a0, u)
  IN WAnd(WShr(WAdd(WAdd(d, WAnd(WShr(d, 8), BYTE1x2MASK)), BYTE1x2HALF), 8),
          BYTE1x2MASK)

\* dst0 = saturate((a0 * b0) / 255 + c0)
b32_1x2MulDiv255U_AddusB32_1x2(a0, b0, c0) ==
  LET dst0 == b32_1x2MulDiv255U(a0, b0)
  IN b32_1x2AddusB32_1x2(dst0, c0)

-----------------------------------------------------------------------------
(* B32_1x2 - premultiply.                                                  *)

\* b32_2x2PremultiplyU without BYTE1x2HALF added to dst0.
b32_2x2PremultiplyU_NoHalf(a0, a1, u) ==
  LET dst0 == WMul(a0, u)
      dst1 == WMul(WAnd(a1, U32(\hFF)), u)
      u1   == WShl(u, 16)
      r0   == WAnd(WShr(WAdd(dst0, WAnd(WShr(dst0, 8), BYTE1x2MASK)), 8),
                   BYTE1x2MASK)
      r1   == WShr(WAdd(WAdd(dst1, WShr(dst1, 8)), BYTE1x1HALF), 8)
  IN <<r0, WOr(r1, u1)>>

\* <<dst0, dst1>>: the pixel a0, a1 with its colours multiplied by u; u is
\* stored as lane B1 of dst1.
b32_2x2PremultiplyU(a0, a1, u) ==
  LET dst0 == WMul(a0, u)
      dst1 == WMul(WAnd(a1, U32(\hFF)), u)
      u1   == WShl(u, 16)
      r0   == WAnd(WShr(WAdd(WAdd(dst0, WAnd(WShr(dst0, 8), BYTE1x2MASK)),
                             BYTE1x2HALF), 8),
                   BYTE1x2MASK)
      r1   == WShr(WAdd(WAdd(dst1, WShr(dst1, 8)), BYTE1x1HALF), 8)
  IN <<r0, WOr(r1, u1)>>

\* b32_2x2PremultiplyA taking the alpha from lane B0 of a1.
b32_2x2PremultiplyA_AlphaFromB0(a0, a1) ==
  b32_2x2PremultiplyU(a0, a1, b32_1x2GetB0(a1))

\* The alpha component is in [a1.B1].
b32_2x2PremultiplyA(a0, a1) ==
  b32_2x2PremultiplyU(a0, a1, b32_1x2GetB1(a1))

-----------------------------------------------------------------------------
(* B64_1x4 - pack, unpack.                                                 *)

\* dst0 = (uint32_t)(x0 | (x0 >> 24))
b64_1x4Pack0213(x0) == ToU32(WOr(x0, WShr(x0, 24)))

\* dst0 = ((b64_1x4)a0 | ((b64_1x4)a0 << 24)) & BYTE_1x4MASK
b64_1x4Unpack0213(a0) ==
  WAnd(WOr(ToU64(a0), WShl(ToU64(a0), 24)), BYTE_1x4MASK)

-----------------------------------------------------------------------------
(* P32 - operations on a tight pixel.                                      *)

\* p32AddusP32 without the lines that set all the bits of a lane on overflow.
p32AddusP32_Wrapping(bits, x, y) ==
  LET t0 == WAdd(WAnd(x, Hex32(\h00, \hFF, \h00, \hFF)),
                 WAnd(y, Hex32(\h00, \hFF, \h00, \hFF)))
      t1 == WAdd(WShr(WAnd(x, Hex32(\hFF, \h00, \hFF, \h00)), 8),
                 WShr(WAnd(y, Hex32(\hFF, \h00, \hFF, \h00)), 8))
  IN WOr(WAnd(t0, Hex32(\h00, \hFF, \h00, \hFF)),
         WShl(WAnd(t1, Hex32(\h00, \hFF, \h00, \hFF)), 8))

\* x_c' = min(x_c + y_c, 255), as built with FOG_ARCH_BITS == bits.
p32AddusP32(bits, x, y) ==
  IF bits = 64
  THEN
    LET m  == Hex64(\h00, \hFF, \h00, \hFF, \h00, \hFF, \h00, \hFF)
        x0 == WAnd(WOr(ToU64(x), WShl(ToU64(x), 24)), m)
        y0 == WAnd(WOr(ToU64(y), WShl(ToU64(y), 24)), m)
        x1 == WAdd(x0, y0)
        x2 == WOr(x1, WSub(Hex64(\h01, \h00, \h01, \h00, \h01, \h00, \h01, \h00),
                           WAnd(WShr(x1, 8), m)))
        x3 == WAnd(x2, m)
    IN ToU32(WOr(x3, WShr(x3, 24)))
  ELSE
    LET m  == Hex32(\h00, \hFF, \h00, \hFF)
        t0 == WAdd(WAnd(x, m), WAnd(y, m))
        t1 == WAdd(WShr(WAnd(x, Hex32(\hFF, \h00, \hFF, \h00)), 8),
                   WShr(WAnd(y, Hex32(\hFF, \h00, \hFF, \h00)), 8))
        s0 == WOr(t0, WSub(Hex32(\h01, \h00, \h01, \h00), WAnd(WShr(t0, 8), m)))
        s1 == WOr(t1, WSub(Hex32(\h01, \h00, \h01, \h00), WAnd(WShr(t1, 8), m)))
    IN WOr(WAnd(s0, m), WShl(WAnd(s1, m), 8))

-----------------------------------------------------------------------------
(* U32 - division by 255.                                                  *)

\* Division by 255: ((i << 8) + (i + 256)) >> 16
u32Div255(i) == WShr(WAdd(WShl(i, 8), WAdd(i, U32(256))), 16)

-----------------------------------------------------------------------------
(* Machine words: complement and comparison.                               *)

\* ~a
WNot(a) == [i \in 1..Len(a) |-> 255 - a[i]]

\* a < b of two unsigned words of the same width, from the highest byte.
RECURSIVE LtFrom(_, _, _)
LtFrom(a, b, i) ==
  IF i < 1 THEN FALSE
  ELSE IF a[i] # b[i] THEN a[i] < b[i]
  ELSE LtFrom(a, b, i - 1)

WLt(a, b) == LtFrom(a, b, Len(a))

-----------------------------------------------------------------------------
(* B32_1x2 - extend, add, sub, addSub.                                     *)

\* dst0 = [src0.B0, src0.B0]; src0.B1 must be zero before the call.
b32_1x2ExtendB0(src0) == WMul(src0, Hex32(\h00, \h01, \h00, \h01))

\* dst0 = a0 + b0
b32_1x2AddB32_1x2(a0, b0) == WAdd(a0, b0)

\* dst0 = a0 - b0
b32_1x2SubB32_1x2(a0, b0) == WSub(a0, b0)

\* dst0 = max(a0 - b0, 0)
b32_1x2SubusB32_1x2(a0, b0) ==
  LET dst0 == WAdd(WXor(a0, BYTE1x2MASK), b0)
  IN WXor(b32_1x2Saturate(dst0), BYTE1x2MASK)

\* dst0 = a0 + b0 - c0
b32_1x2AddSubB32_1x2(a0, b0, c0) == WSub(WAdd(a0, b0), c0)

\* <<dst0, dst1>>: the source assigns both results to dst0, the second
\* assignment last; dst1 keeps the value d1 it had before the call.
b32_2x2AddSubB32_2x2(a0, b0, c0, d1, a1, b1, c1) ==
  <<WSub(WAdd(a1, b1), c1), d1>>

\* b32_1x2AddSubusB32_1x2 without the two lines that clear a negative
\* difference.
b32_1x2AddSubusB32_1x2_NoFloor(a0, b0, c0) ==
  LET dst0 == WAdd(a0, b0)
      x0lo == WSub(WAnd(dst0, Hex32(\h00, \h00, \h01, \hFF)),
                   WAnd(c0, Hex32(\h00, \h00, \hFF, \hFF)))
      x0hi == WSub(WShr(WAnd(dst0, Hex32(\h01, \hFF, \h00, \h00)), 16),
                   WShr(WAnd(c0, Hex32(\hFF, \hFF, \h00, \h00)), 16))
  IN b32_1x2Saturate(WOr(x0lo, WShl(x0hi, 16)))

\* dst0 = saturate(a0 + b0 - c0)
b32_1x2AddSubusB32_1x2(a0, b0, c0) ==
  LET dst0 == WAdd(a0, b0)
      x0lo == WSub(WAnd(dst0, Hex32(\h00, \h00, \h01, \hFF)),
                   WAnd(c0, Hex32(\h00, \h00, \hFF, \hFF)))
      x0hi == WSub(WShr(WAnd(dst0, Hex32(\h01, \hFF, \h00, \h00)), 16),
                   WShr(WAnd(c0, Hex32(\hFF, \hFF, \h00, \h00)), 16))
      y0lo == WAnd(x0lo, WShr(WAnd(WNot(x0lo), Hex32(\hFF, \hFF, \h00, \h00)),
                               16))
      y0hi == WAnd(x0hi, WShr(WAnd(WNot(x0hi), Hex32(\hFF, \hFF, \h00, \h00)),
                               16))
  IN b32_1x2Saturate(WOr(y0lo, WShl(y0hi, 16)))

-----------------------------------------------------------------------------
(* B32_1x2 - multiply, min, max, shift, negate.                            *)

\* dst0 = a0 * u
b32_1x2MulU(a0, u) == WMul(a0, u)

\* <<dst0, dst1>> = (a0 * u) / 255, (a1 * u) / 255
b32_2x2MulDiv255U(a0, a1, u) ==
  LET d0 == WMul(a0, u)
      d1 == WMul(a1, u)
  IN <<WAnd(WShr(WAdd(WAdd(d0, WAnd(WShr(d0, 8), BYTE1x2MASK)), BYTE1x2HALF),
                 8), BYTE1x2MASK),
       WAnd(WShr(WAdd(WAdd(d1, WAnd(WShr(d1, 8), BYTE1x2MASK)), BYTE1x2HALF),
                 8), BYTE1x2MASK)>>

\* dst0 = (a0 * b0) / 255, lane by lane
b32_1x2MulDiv255B32_1x2(a0, b0) ==
  LET d == WOr(WMul(WAnd(a0, Hex32(\h00, \h00, \h00, \hFF)),
                    WAnd(b0, Hex32(\h00, \h00, \h00, \hFF))),
               WMul(WAnd(a0, Hex32(\h00, \hFF, \h00, \h00)),
                    WShr(WAnd(b0, Hex32(\h00, \hFF, \h00, \h00)), 16)))
  IN WAnd(WShr(WAdd(WAdd(d, WAnd(WShr(d, 8), BYTE1x2MASK)), BYTE1x2HALF), 8),
          BYTE1x2MASK)

\* dst0 = (a0 * b0 + c0 * d0) / 255
b32_1x2MulDiv255U_2x_Add(a0, b0, c0, d0) ==
  LET d == WAdd(WMul(a0, b0), WMul(c0, d0))
  IN WAnd(WShr(WAdd(WAdd(d, WAnd(WShr(d, 8), BYTE1x2MASK)), BYTE1x2HALF), 8),
          BYTE1x2MASK)

\* <<dst0, dst1>> = (a0 * b0 + c0 * d0) / 255, (a1 * b1 + c1 * d1) / 255
b32_2x2MulDiv255U_2x_Add(a0, b0, c0, d0, a1, b1, c1, d1) ==
  <<b32_1x2MulDiv255U_2x_Add(a0, b0, c0, d0),
    b32_1x2MulDiv255U_2x_Add(a1, b1, c1, d1)>>

\* dst0 = (a0 * u) / 256
b32_1x2MulDiv256U(a0, u) == WAnd(WShr(WMul(a0, u), 8), BYTE1x2MASK)

\* <<dst0, dst1>>: the source assigns both results to dst0, the second
\* assignment last; dst1 keeps the value d1 it had before the call.
b32_2x2MulDiv256U(a0, d1, a1, u) ==
  <<WAnd(WShr(WMul(a1, u), 8), BYTE1x2MASK), d1>>

\* dst0 = min(a0, u)
b32_1x2MinU(a0, u) ==
  LET a0lo == WAnd(a0, Hex32(\h00, \h00, \h00, \hFF))
      lo   == IF WLt(u, a0lo) THEN u ELSE a0lo
      u1   == WShl(u, 16)
      a0hi == WAnd(a0, Hex32(\h00, \hFF, \h00, \h00))
      hi   == IF WLt(u1, a0hi) THEN u1 ELSE a0hi
  IN WOr(lo, hi)

\* dst0 = min(a0, b0)
b32_1x2MinB32_1x2(a0, b0) ==
  LET a0lo == WAnd(a0, Hex32(\h00, \h00, \h00, \hFF))
      b0lo == WAnd(b0, Hex32(\h00, \h00, \h00, \hFF))
      a0hi == WAnd(a0, Hex32(\h00, \hFF, \h00, \h00))
      b0hi == WAnd(b0, Hex32(\h00, \hFF, \h00, \h00))
  IN WOr(IF WLt(b0lo, a0lo) THEN b0lo ELSE a0lo,
         IF WLt(b0hi, a0hi) THEN b0hi ELSE a0hi)

\* dst0 = max(a0, u): the source compares both a0lo and a0hi with u itself.
b32_1x2MaxU(a0, u) ==
  LET a0lo == WAnd(a0, Hex32(\h00, \h00, \h00, \hFF))
      a0hi == WAnd(a0, Hex32(\h00, \hFF, \h00, \h00))
  IN WOr(IF WLt(a0lo, u) THEN u ELSE a0lo,
         IF WLt(a0hi, u) THEN u ELSE a0hi)

\* dst0 = max(a0, b0)
b32_1x2MaxB32_1x2(a0, b0) ==
  LET a0lo == WAnd(a0, Hex32(\h00, \h00, \h00, \hFF))
      a0hi == WAnd(a0, Hex32(\h00, \hFF, \h00, \h00))
      b0lo == WAnd(b0, Hex32(\h00, \h00, \h00, \hFF))
      b0hi == WAnd(b0, Hex32(\h00, \hFF, \h00, \h00))
  IN WOr(IF WLt(a0lo, b0lo) THEN b0lo ELSE a0lo,
         IF WLt(a0hi, b0hi) THEN b0hi ELSE a0hi)

\* dst0 = a0 << u, for a shift count u given as a number: the set of the
\* values dst0 may hold.  For u >= 32 the shift is undefined: a build stores
\* a0 << (u mod 32) (the scalar shift instruction) or 0 (a count folded at
\* compile time, a vector shift).
b32_1x2ShiftLeftU(a0, u) ==
  IF u < 32 THEN {WShl(a0, u)} ELSE {WShl(a0, u % 32), U32(0)}

\* dst0 = a0 >> u: the set of the values dst0 may hold, a0 >> (u mod 32) or
\* 0 for u >= 32.
b32_1x2ShiftRightU(a0, u) ==
  IF u < 32 THEN {WShr(a0, u)} ELSE {WShr(a0, u % 32), U32(0)}

\* dst0 = a0 ^ 0x00FF00FF
b32_1x2Negate(a0) == WXor(a0, Hex32(\h00, \hFF, \h00, \hFF))

-----------------------------------------------------------------------------
(* B32_1x2 - interpolate.                                                  *)

\* <<dst0, dst1>>: a * b + c * d with the rounding terms added and the
\* lanes masked; the source does not shift the sums right by 8.
b32_2x2InterpolateU255(a0, b0, c0, d0, a1, b1, c1, d1) ==
  LET s0 == WAdd(WMul(a0, b0), WMul(c0, d0))
      s1 == WAdd(WMul(a1, b1), WMul(c1, d1))
      r0 == WAdd(WAdd(s0, WAnd(WShr(s0, 8), Hex32(\h00, \hFF, \h00, \hFF))),
                 Hex32(\h00, \h80, \h00, \h80))
      r1 == WAdd(WAdd(s1, WAnd(WShr(s1, 8), Hex32(\h00, \hFF, \h00, \hFF))),
                 Hex32(\h00, \h80, \h00, \h80))
  IN <<WAnd(r0, BYTE1x2MASK), WAnd(r1, BYTE1x2MASK)>>

\* <<dst0, dst1>> = (a0 * b0 + c0 * d0) / 256, (a1 * b1 + c1 * d1) / 256
b32_2x2InterpolateU256(a0, b0, c0, d0, a1, b1, c1, d1) ==
  LET s0 == WAdd(WMul(a0, b0), WMul(c0, d0))
      s1 == WAdd(WMul(a1, b1), WMul(c1, d1))
  IN <<WAnd(WShr(s0, 8), BYTE1x2MASK), WAnd(WShr(s1, 8), BYTE1x2MASK)>>

-----------------------------------------------------------------------------
(* P32 - MulDiv255 on a tight pixel.                                       *)

\* p32MulDiv255U without the halves (0x00800080) added before the shift.
p32MulDiv255U_NoHalf(bits, x, a) ==
  LET m  == Hex32(\h00, \hFF, \h00, \hFF)
      t0 == WMul(WAnd(x, m), a)
      t1 == WMul(WShr(WAnd(x, Hex32(\hFF, \h00, \hFF, \h00)), 8), a)
      r0 == WAnd(WShr(WAdd(t0, WAnd(WShr(t0, 8), m)), 8), m)
      r1 == WAnd(WAdd(t1, WAnd(WShr(t1, 8), m)),
                 Hex32(\hFF, \h00, \hFF, \h00))
  IN WOr(r0, r1)

\* x_c' = (x_c * a) / 255, as built with FOG_ARCH_BITS == bits.
p32MulDiv255U(bits, x, a) ==
  IF bits = 64
  THEN
    LET m  == Hex64(\h00, \hFF, \h00, \hFF, \h00, \hFF, \h00, \hFF)
        x0 == WAnd(WOr(ToU64(x), WShl(ToU64(x), 24)), m)
        x1 == WMul(x0, ToU64(a))
        x2 == WShr(WAdd(WAdd(x1, WAnd(WShr(x1, 8), m)),
                        Hex64(\h00, \h80, \h00, \h80, \h00, \h80, \h00, \h80)),
                   8)
        x3 == WAnd(x2, m)
    IN ToU32(WOr(x3, WShr(x3, 24)))
  ELSE
    LET m  == Hex32(\h00, \hFF, \h00, \hFF)
        t0 == WMul(WAnd(x, m), a)
        t1 == WMul(WShr(WAnd(x, Hex32(\hFF, \h00, \hFF, \h00)), 8), a)
        r0 == WAnd(WShr(WAdd(WAdd(t0, WAnd(WShr(t0, 8), m)),
                             Hex32(\h00, \h80, \h00, \h80)), 8), m)
        r1 == WAnd(WAdd(WAdd(t1, WAnd(WShr(t1, 8), m)),
                        Hex32(\h00, \h80, \h00, \h80)),
                   Hex32(\hFF, \h00, \hFF, \h00))
    IN WOr(r0, r1)

\* x_c' = (x_c * a) / 255, x_a' = 0x00
p32MulDiv255U_0XXX(bits, x, a) ==
  IF bits = 64
  THEN
    LET m  == Hex64(\h00, \h00, \h00, \hFF, \h00, \hFF, \h00, \hFF)
        x0 == WAnd(WOr(ToU64(x), WShl(ToU64(x), 24)), m)
        x1 == WMul(x0, ToU64(a))
        x2 == WShr(WAdd(WAdd(x1, WAnd(WShr(x1, 8), m)),
                        Hex64(\h00, \h00, \h00, \h80, \h00, \h80, \h00, \h80)),
                   8)
        x3 == WAnd(x2, m)
    IN ToU32(WOr(x3, WShr(x3, 24)))
  ELSE
    LET m  == Hex32(\h00, \hFF, \h00, \hFF)
        t0 == WMul(WAnd(x, m), a)
        t1 == WMul(WShr(WAnd(x, Hex32(\h00, \h00, \hFF, \h00)), 8), a)
        r0 == WAnd(WShr(WAdd(WAdd(t0, WAnd(WShr(t0, 8), m)),
                             Hex32(\h00, \h80, \h00, \h80)), 8), m)
        r1 == WAnd(WAdd(WAdd(t1, WAnd(WShr(t1, 8),
                                      Hex32(\h00, \h00, \h00, \hFF))),
                        Hex32(\h00, \h00, \h00, \h80)),
                   Hex32(\h00, \h00, \hFF, \h00))
    IN WOr(r0, r1)

\* p32MulDiv255U_FXXX multiplying the alpha channel like the others.
p32MulDiv255U_FXXX_AlphaScaled(bits, x, a) == p32MulDiv255U(bits, x, a)

\* x_c' = (x_c * a) / 255, x_a' = 0xFF
p32MulDiv255U_FXXX(bits, x, a) ==
  IF bits = 64
  THEN
    LET m3 == Hex64(\h00, \h00, \h00, \hFF, \h00, \hFF, \h00, \hFF)
        x0 == WAnd(WOr(ToU64(x), WShl(ToU64(x), 24)), m3)
        x1 == WMul(x0, ToU64(a))
        x2 == WShr(WAdd(WAdd(x1, WAnd(WShr(x1, 8), m3)),
                        Hex64(\hFF, \h00, \h00, \h80, \h00, \h80, \h00, \h80)),
                   8)
        x3 == WAnd(x2, Hex64(\h00, \hFF, \h00, \hFF, \h00, \hFF, \h00, \hFF))
    IN ToU32(WOr(x3, WShr(x3, 24)))
  ELSE
    LET m  == Hex32(\h00, \hFF, \h00, \hFF)
        t0 == WMul(WAnd(x, m), a)
        t1 == WMul(WShr(WAnd(x, Hex32(\h00, \h00, \hFF, \h00)), 8), a)
        r0 == WAnd(WShr(WAdd(WAdd(t0, WAnd(WShr(t0, 8), m)),
                             Hex32(\h00, \h80, \h00, \h80)), 8), m)
        r1 == WAnd(WAdd(WAdd(t1, WAnd(WShr(t1, 8), m)),
                        Hex32(\hFF, \h00, \h00, \h80)),
                   Hex32(\hFF, \h00, \hFF, \h00))
    IN WOr(r0, r1)

-----------------------------------------------------------------------------
(* B32_1x2 - interpolate and pack.                                         *)

\* b32_2x2InterpolateU255_Pack0213 without the << 8 of a1.
b32_2x2InterpolateU255_Pack0213_NoShift(a0, b0, c0, d0, a1, b1, c1, d1) ==
  LET s0 == WAdd(WMul(a0, b0), WMul(c0, d0))
      s1 == WAdd(WMul(a1, b1), WMul(c1, d1))
      r0 == WAdd(WAdd(s0, WAnd(WShr(s0, 8), Hex32(\h00, \hFF, \h00, \hFF))),
                 Hex32(\h00, \h80, \h00, \h80))
      r1 == WAdd(WAdd(s1, WAnd(WShr(s1, 8), Hex32(\h00, \hFF, \h00, \hFF))),
                 Hex32(\h00, \h80, \h00, \h80))
  IN WOr(WAnd(r0, Hex32(\h00, \hFF, \h00, \hFF)),
         WAnd(r1, Hex32(\hFF, \h00, \hFF, \h00)))

\* The tight pixel a0 | a1 of the interpolation by 255, as the source
\* computes it: a0 is not shifted, a1 is shifted left by 8.
b32_2x2InterpolateU255_Pack0213(a0, b0, c0, d0, a1, b1, c1, d1) ==
  LET s0 == WAdd(WMul(a0, b0), WMul(c0, d0))
      s1 == WAdd(WMul(a1, b1), WMul(c1, d1))
      r0 == WAdd(WAdd(s0, WAnd(WShr(s0, 8), Hex32(\h00, \hFF, \h00, \hFF))),
                 Hex32(\h00, \h80, \h00, \h80))
      r1 == WShl(WAdd(WAdd(s1, WAnd(WShr(s1, 8),
                                    Hex32(\h00, \hFF, \h00, \hFF))),
                      Hex32(\h00, \h80, \h00, \h80)), 8)
  IN WOr(WAnd(r0, Hex32(\h00, \hFF, \h00, \hFF)),
         WAnd(r1, Hex32(\hFF, \h00, \hFF, \h00)))

\* The tight pixel a0 | a1 of the interpolation by 256.
b32_2x2InterpolateU256_Pack0213(a0, b0, c0, d0, a1, b1, c1, d1) ==
  LET s0 == WAdd(WMul(a0, b0), WMul(c0, d0))
      s1 == WAdd(WMul(a1, b1), WMul(c1, d1))
  IN WOr(WAnd(WShr(s0, 8), Hex32(\h00, \hFF, \h00, \hFF)),
         WAnd(s1, Hex32(\hFF, \h00, \hFF, \h00)))

-----------------------------------------------------------------------------
(* P32 - two-term MulDiv255 on tight pixels.                               *)

\* p32_2x4MulDiv255U32_Add with y0 weighted by a0 instead of b0.
p32_2x4MulDiv255U32_Add_OneWeight(x0, a0, y0, b0) ==
  LET m  == Hex32(\h00, \hFF, \h00, \hFF)
      n  == Hex32(\hFF, \h00, \hFF, \h00)
      t0 == WAdd(WMul(WAnd(x0, m), a0), WMul(WAnd(y0, m), a0))
      t1 == WAdd(WMul(WShr(WAnd(x0, n), 8), a0),
                 WMul(WShr(WAnd(y0, n), 8), a0))
      u0 == WAdd(WAdd(t0, WAnd(WShr(t0, 8), m)), Hex32(\h00, \h80, \h00, \h80))
      u1 == WAdd(WAdd(t1, WAnd(WShr(t1, 8), m)), Hex32(\h00, \h80, \h00, \h80))
  IN WAdd(WShr(WAnd(u0, n), 8), WAnd(u1, n))

\* (x0_c * a0 + y0_c * b0) / 255 in each byte c.
p32_2x4MulDiv255U32_Add(x0, a0, y0, b0) ==
  LET m  == Hex32(\h00, \hFF, \h00, \hFF)
      n  == Hex32(\hFF, \h00, \hFF, \h00)
      t0 == WAdd(WMul(WAnd(x0, m), a0), WMul(WAnd(y0, m), b0))
      t1 == WAdd(WMul(WShr(WAnd(x0, n), 8), a0),
                 WMul(WShr(WAnd(y0, n), 8), b0))
      u0 == WAdd(WAdd(t0, WAnd(WShr(t0, 8), m)), Hex32(\h00, \h80, \h00, \h80))
      u1 == WAdd(WAdd(t1, WAnd(WShr(t1, 8), m)), Hex32(\h00, \h80, \h00, \h80))
  IN WAdd(WShr(WAnd(u0, n), 8), WAnd(u1, n))

-----------------------------------------------------------------------------
(* B32_1x2 - Zero, Fill and Set of one lane.                               *)

\* dst0 = a0 & 0x00FF0000
b32_1x2ZeroB0(a0) == WAnd(a0, Hex32(\h00, \hFF, \h00, \h00))

\* dst0 = a0 & 0x000000FF
b32_1x2ZeroB1(a0) == WAnd(a0, Hex32(\h00, \h00, \h00, \hFF))

\* dst0 = a0 | 0x000000FF
b32_1x2FillB0(a0) == WOr(a0, Hex32(\h00, \h00, \h00, \hFF))

\* dst0 = a0 | 0x00FF0000
b32_1x2FillB1(a0) == WOr(a0, Hex32(\h00, \hFF, \h00, \h00))

\* b32_1x2SetB0 without the mask that clears lane B0 first.
b32_1x2SetB0_NoClear(a0, u) == WOr(a0, u)

\* dst0 = (a0 & 0x00FF0000) | u
b32_1x2SetB0(a0, u) == WOr(WAnd(a0, Hex32(\h00, \hFF, \h00, \h00)), u)

\* dst0 = (a0 & 0x000000FF) | (u << 16)
b32_1x2SetB1(a0, u) ==
  WOr(WAnd(a0, Hex32(\h00, \h00, \h00, \hFF)), WShl(u, 16))

-----------------------------------------------------------------------------
(* P32 - MulDiv255 of a tight pixel, then saturated add of another.        *)

\* p32MulDiv255U_AddusP32 whose 64-bit branch adds y without saturating.
p32MulDiv255U_AddusP32_Wrapping64(bits, x, a, y) ==
  IF bits = 64
  THEN
    LET m  == Hex64(\h00, \hFF, \h00, \hFF, \h00, \hFF, \h00, \hFF)
        x0 == WAnd(WOr(ToU64(x), WShl(ToU64(x), 24)), m)
        y0 == WAnd(WOr(ToU64(y), WShl(ToU64(y), 24)), m)
        x1 == WMul(x0, ToU64(a))
        x2 == WShr(WAdd(WAdd(x1, WAnd(WShr(x1, 8), m)),
                        Hex64(\h00, \h80, \h00, \h80, \h00, \h80, \h00, \h80)),
                   8)
        x3 == WAnd(x2, m)
        x6 == WAnd(WAdd(x3, y0), m)
    IN ToU32(WOr(x6, WShr(x6, 24)))
  ELSE
    p32AddusP32(32, p32MulDiv255U(32, x, a), y)

\* x_c' = (x_c * a) / 255 + y, as built with FOG_ARCH_BITS == bits.
p32MulDiv255U_AddusP32(bits, x, a, y) ==
  IF bits = 64
  THEN
    LET m  == Hex64(\h00, \hFF, \h00, \hFF, \h00, \hFF, \h00, \hFF)
        x0 == WAnd(WOr(ToU64(x), WShl(ToU64(x), 24)), m)
        y0 == WAnd(WOr(ToU64(y), WShl(ToU64(y), 24)), m)
        x1 == WMul(x0, ToU64(a))
        x2 == WShr(WAdd(WAdd(x1, WAnd(WShr(x1, 8), m)),
                        Hex64(\h00, \h80, \h00, \h80, \h00, \h80, \h00, \h80)),
                   8)
        x3 == WAnd(x2, m)
        x4 == WAdd(x3, y0)
        x5 == WOr(x4, WSub(Hex64(\h01, \h00, \h01, \h00, \h01, \h00, \h01, \h00),
                           WAnd(WShr(x4, 8), m)))
        x6 == WAnd(x5, m)
    IN ToU32(WOr(x6, WShr(x6, 24)))
  ELSE
    LET m  == Hex32(\h00, \hFF, \h00, \hFF)
        h  == Hex32(\h00, \h80, \h00, \h80)
        o  == Hex32(\h01, \h00, \h01, \h00)
        t0 == WMul(WAnd(x, m), a)
        t1 == WMul(WShr(WAnd(x, Hex32(\hFF, \h00, \hFF, \h00)), 8), a)
        r0 == WAnd(WShr(WAdd(WAdd(t0, WAnd(WShr(t0, 8), m)), h), 8), m)
        r1 == WAnd(WShr(WAdd(WAdd(t1, WAnd(WShr(t1, 8), m)), h), 8), m)
        s0 == WAdd(r0, WAnd(y, m))
        s1 == WAdd(r1, WShr(WAnd(y, Hex32(\hFF, \h00, \hFF, \h00)), 8))
        u0 == WAnd(WOr(s0, WSub(o, WAnd(WShr(s0, 8), m))), m)
        u1 == WAnd(WOr(s1, WSub(o, WAnd(WShr(s1, 8), m))), m)
    IN WOr(u0, WShl(u1, 8))

-----------------------------------------------------------------------------
(* Fog::LazyBase - an instance created on the first call of _get.          *)
(* _ptr is the member of the LazyBase; pc[t] is the line of _get thread t  *)
(* is at and v_get[t] its local v.  A thread may call _get again whenever  *)
(* its last call has returned, without limit.  calls[t] counts the calls   *)
(* thread t has made, up to MaxCalls; creates holds one entry for each     *)
(* invocation of _create, "running" until it returns and then the value it *)
(* returned: the first MaxCreates - 1 invocations and the latest one.      *)

\* How many threads share the LazyBase, how many calls of a thread are
\* counted, and how many invocations of _create are remembered.
NumThreads == 2
MaxCalls == 2
MaxCreates == 2

Threads == 1..NumThreads

NULL == "NULL"
STATE_CREATING_NOW == "STATE_CREATING_NOW"

\* The instances _create may make, and what it may return: the code does
\* not constrain it, and _get tells NULL, STATE_CREATING_NOW and every other
\* value apart.
CreateValues == {"instanceA", "instanceB"}
CreateReturns == CreateValues \cup {NULL, STATE_CREATING_NOW}

lazyVars == <<_ptr, pc, v_get, calls, creates>>

\* LazyBase::LazyBase() : _ptr(NULL); no thread has called _get.
LazyBase ==
  /\ _ptr = NULL
  /\ pc = [t \in Threads |-> "idle"]
  /\ v_get = [t \in Threads |-> NULL]
  /\ calls = [t \in Threads |-> 0]
  /\ creates = <<>>

\* Thread t calls _get: any thread that is not inside _get may call it, as
\* often as it likes.
Call_get(t) ==
  /\ pc[t] = "idle"
  /\ pc' = [pc EXCEPT ![t] = "get"]
  /\ calls' = [calls EXCEPT ![t] = IF @ < MaxCalls THEN @ + 1 ELSE @]
  /\ UNCHANGED <<_ptr, v_get, creates>>

\* void* v = AtomicCore<void*>::get(&_ptr);
\* if (v != NULL && v != (void*)STATE_CREATING_NOW) return v;
Get(t) ==
  /\ pc[t] = "get"
  /\ v_get' = [v_get EXCEPT ![t] = _ptr]
  /\ pc' = [pc EXCEPT ![t] =
              IF _ptr # NULL /\ _ptr # STATE_CREATING_NOW
              THEN "return" ELSE "cmpXchg"]
  /\ UNCHANGED <<_ptr, calls, creates>>

\* AtomicCore<void*>::cmpXchg without the comparison with NULL: it always
\* stores STATE_CREATING_NOW and succeeds.
CmpXchg_NoCompare(t) ==
  /\ pc[t] = "cmpXchg"
  /\ _ptr' = STATE_CREATING_NOW
  /\ pc' = [pc EXCEPT ![t] = "_create"]
  /\ creates' = IF Len(creates) < MaxCreates
                       THEN Append(creates, "running")
                       ELSE [creates EXCEPT ![MaxCreates] = "running"]
  /\ UNCHANGED <<v_get, calls>>

\* if (AtomicCore<void*>::cmpXchg(&_ptr, NULL, STATE_CREATING_NOW)): the
\* thread that wins invokes _create, the others go to the loop.
CmpXchg(t) ==
  /\ pc[t] = "cmpXchg"
  /\ IF _ptr = NULL
     THEN /\ _ptr' = STATE_CREATING_NOW
          /\ pc' = [pc EXCEPT ![t] = "_create"]
          /\ creates' = IF Len(creates) < MaxCreates
                       THEN Append(creates, "running")
                       ELSE [creates EXCEPT ![MaxCreates] = "running"]
     ELSE /\ pc' = [pc EXCEPT ![t] = "spin"]
          /\ UNCHANGED <<_ptr, creates>>
  /\ UNCHANGED <<v_get, calls>>

\* v = _create(); the invocation returns one of CreateReturns.
Create(t) ==
  /\ pc[t] = "_create"
  /\ \E made \in CreateReturns :
       /\ v_get' = [v_get EXCEPT ![t] = made]
       /\ creates' = [i \in 1..Len(creates) |->
                        IF creates[i] = "running" THEN made ELSE creates[i]]
  /\ pc' = [pc EXCEPT ![t] = "set"]
  /\ UNCHANGED <<_ptr, calls>>

\* The store of the created value left out.
Set_NoStore(t) ==
  /\ pc[t] = "set"
  /\ pc' = [pc EXCEPT ![t] = "return"]
  /\ UNCHANGED <<_ptr, v_get, calls, creates>>

\* AtomicCore<void*>::set(&_ptr, v); return v;
Set(t) ==
  /\ pc[t] = "set"
  /\ _ptr' = v_get[t]
  /\ pc' = [pc EXCEPT ![t] = "return"]
  /\ UNCHANGED <<v_get, calls, creates>>

\* The loop left after one read of _ptr, whatever it holds.
Spin_Once(t) ==
  /\ pc[t] = "spin"
  /\ v_get' = [v_get EXCEPT ![t] = _ptr]
  /\ pc' = [pc EXCEPT ![t] = "return"]
  /\ UNCHANGED <<_ptr, calls, creates>>

\* while ((v = AtomicCore<void*>::get(&_ptr)) == STATE_CREATING_NOW)
Spin(t) ==
  /\ pc[t] = "spin"
  /\ v_get' = [v_get EXCEPT ![t] = _ptr]
  /\ pc' = [pc EXCEPT ![t] =
              IF _ptr = STATE_CREATING_NOW THEN "yield" ELSE "return"]
  /\ UNCHANGED <<_ptr, calls, creates>>

\* Thread::_yield();
Yield(t) ==
  /\ pc[t] = "yield"
  /\ pc' = [pc EXCEPT ![t] = "spin"]
  /\ UNCHANGED <<_ptr, v_get, calls, creates>>

\* return v: the call of thread t is over.
Return(t) ==
  /\ pc[t] = "return"
  /\ pc' = [pc EXCEPT ![t] = "idle"]
  /\ UNCHANGED <<_ptr, v_get, calls, creates>>

-----------------------------------------------------------------------------
(* Inputs.  A function is applied to arguments drawn at the start; where   *)
(* all of 0..255 in every argument is too much, each argument in turn      *)
(* sweeps 0..255 while the others take sample values.                      *)

\* Channel values, the edge cases first.
SampleSeq ==
  <<0, 255, 128, 1, 127, 64, 254, 32, 129, 2, 85, 170, 16, 200, 100, 51>>

Samples(n) == {SampleSeq[i] : i \in 1..n}

\* The tuple s with position i holding v: one argument sweeps, the others
\* stay sample values.
Sweep(s, i, v) == [s EXCEPT ![i] = v]

\* How many sample values the other arguments of a three-argument scalar take.
LerpSamples == 1
\* How many sample values each channel of a tight pixel takes.
PixelSamples == 8
\* How many sample values a lane takes while another lane sweeps 0..255.
LaneSamples == 3
\* How many sample values each channel of a pair of tight pixels takes.
PairSamples == 3

-----------------------------------------------------------------------------
(* SpecU32: the two-argument scalar functions on every pair of bytes.      *)

InitU32 ==
  /\ LazyBase
  /\ fn = "none"
  /\ args \in [x : Byte, y : Byte]
  /\ ret = <<>>

Call_u32Addus ==
  /\ fn = "none"
  /\ fn' = "u32Addus"
  /\ ret' = u32Addus(U32(args.x), U32(args.y))
  /\ UNCHANGED <<args, lazyVars>>

Call_u32Subus ==
  /\ fn = "none"
  /\ fn' = "u32Subus"
  /\ ret' = u32Subus(U32(args.x), U32(args.y))
  /\ UNCHANGED <<args, lazyVars>>

\* u32MulDiv255(x, a) with the weight a = args.y.
Call_u32MulDiv255 ==
  /\ fn = "none"
  /\ fn' = "u32MulDiv255"
  /\ ret' = u32MulDiv255(U32(args.x), U32(args.y))
  /\ UNCHANGED <<args, lazyVars>>

Call_u32Negate255 ==
  /\ fn = "none"
  /\ fn' = "u32Negate255"
  /\ ret' = u32Negate255(U32(args.x))
  /\ UNCHANGED <<args, lazyVars>>

\* u32Negate255 applied to what u32Negate255 returned.
Call_u32Negate255_Again ==
  /\ fn = "u32Negate255"
  /\ fn' = "u32Negate255(u32Negate255)"
  /\ ret' = u32Negate255(ret)
  /\ UNCHANGED <<args, lazyVars>>

NextU32 ==
  \/ Call_u32Addus
  \/ Call_u32Subus
  \/ Call_u32MulDiv255
  \/ Call_u32Negate255
  \/ Call_u32Negate255_Again

SpecU32 == InitU32 /\ [][NextU32]_vars

-----------------------------------------------------------------------------
(* SpecLerp: u32Lerp255 on every x and weight a, with y = x or a sample.   *)

InitLerp ==
  /\ LazyBase
  /\ fn = "none"
  /\ \/ \E x \in Byte, a \in Byte :
          \E y \in {x} \cup Samples(LerpSamples) :
            args = [x |-> x, y |-> y, a |-> a]
     \/ \E x \in Byte, y \in Byte, a \in Samples(LerpSamples) :
          args = [x |-> x, y |-> y, a |-> a]
  /\ ret = <<>>

Call_u32Lerp255 ==
  /\ fn = "none"
  /\ fn' = "u32Lerp255"
  /\ ret' = u32Lerp255(U32(args.x), U32(args.y), U32(args.a))
  /\ UNCHANGED <<args, lazyVars>>

NextLerp == Call_u32Lerp255

SpecLerp == InitLerp /\ [][NextLerp]_vars

-----------------------------------------------------------------------------
(* SpecPack: a tight pixel unpacked and packed again.                      *)

\* The tight pixels whose four channels are sample values.
InitPack ==
  /\ LazyBase
  /\ fn = "none"
  /\ \E p \in [1..4 -> Samples(PixelSamples)] :
       args = [p |-> Hex32(p[4], p[3], p[2], p[1])]
  /\ ret = <<>>

Call_b32_2x2Unpack0213 ==
  /\ fn = "none"
  /\ fn' = "b32_2x2Unpack0213"
  /\ ret' = b32_2x2Unpack0213(args.p)
  /\ UNCHANGED <<args, lazyVars>>

\* b32_2x2Pack0213 of the two words b32_2x2Unpack0213 stored.
Call_b32_2x2Pack0213 ==
  /\ fn = "b32_2x2Unpack0213"
  /\ fn' = "b32_2x2Pack0213"
  /\ ret' = b32_2x2Pack0213(ret[1], ret[2])
  /\ UNCHANGED <<args, lazyVars>>

Call_b64_1x4Unpack0213 ==
  /\ fn = "none"
  /\ fn' = "b64_1x4Unpack0213"
  /\ ret' = b64_1x4Unpack0213(args.p)
  /\ UNCHANGED <<args, lazyVars>>

\* b64_1x4Pack0213 of the word b64_1x4Unpack0213 stored.
Call_b64_1x4Pack0213 ==
  /\ fn = "b64_1x4Unpack0213"
  /\ fn' = "b64_1x4Pack0213"
  /\ ret' = b64_1x4Pack0213(ret)
  /\ UNCHANGED <<args, lazyVars>>

NextPack ==
  \/ Call_b32_2x2Unpack0213
  \/ Call_b32_2x2Pack0213
  \/ Call_b64_1x4Unpack0213
  \/ Call_b64_1x4Pack0213

SpecPack == InitPack /\ [][NextPack]_vars

-----------------------------------------------------------------------------
(* SpecPremul: b32_2x2PremultiplyA on an unpacked pixel.                   *)

\* a0 = [B1, B0] and a1 = [alpha, B0] from the tuple
\* <<a0.B0, a0.B1, a1.B0, a1.B1>>.
InitPremul ==
  /\ LazyBase
  /\ fn = "none"
  /\ \E s \in [1..4 -> Samples(LaneSamples)], i \in 1..4, v \in Byte :
       LET t == Sweep(s, i, v)
       IN args = [a0 |-> B32_1x2(t[2], t[1]), a1 |-> B32_1x2(t[4], t[3])]
  /\ ret = <<>>

Call_b32_2x2PremultiplyA ==
  /\ fn = "none"
  /\ fn' = "b32_2x2PremultiplyA"
  /\ ret' = b32_2x2PremultiplyA(args.a0, args.a1)
  /\ UNCHANGED <<args, lazyVars>>

NextPremul == Call_b32_2x2PremultiplyA

SpecPremul == InitPremul /\ [][NextPremul]_vars

-----------------------------------------------------------------------------
(* SpecMulAddus: b32_1x2MulDiv255U_AddusB32_1x2.                           *)

\* From the tuple <<a0.B0, a0.B1, b0, c0.B0, c0.B1>>.
InitMulAddus ==
  /\ LazyBase
  /\ fn = "none"
  /\ \E s \in [1..5 -> Samples(LaneSamples)], i \in 1..5, v \in Byte :
       LET t == Sweep(s, i, v)
       IN args = [a0 |-> B32_1x2(t[2], t[1]), b0 |-> U32(t[3]),
                  c0 |-> B32_1x2(t[5], t[4])]
  /\ ret = <<>>

Call_b32_1x2MulDiv255U_AddusB32_1x2 ==
  /\ fn = "none"
  /\ fn' = "b32_1x2MulDiv255U_AddusB32_1x2"
  /\ ret' = b32_1x2MulDiv255U_AddusB32_1x2(args.a0, args.b0, args.c0)
  /\ UNCHANGED <<args, lazyVars>>

NextMulAddus == Call_b32_1x2MulDiv255U_AddusB32_1x2

SpecMulAddus == InitMulAddus /\ [][NextMulAddus]_vars

-----------------------------------------------------------------------------
(* SpecP32Addus: p32AddusP32 on pairs of tight pixels, in both builds.     *)

\* Every pair of sample pixels, and the pair 0xFF804020, 0x00FFFFFF.
InitP32Addus ==
  /\ LazyBase
  /\ fn = "none"
  /\ \E bits \in FOG_ARCH_BITS :
       \/ \E p \in [1..4 -> Samples(PairSamples)],
             q \in [1..4 -> Samples(PairSamples)] :
            args = [bits |-> bits,
                    x |-> Hex32(p[4], p[3], p[2], p[1]),
                    y |-> Hex32(q[4], q[3], q[2], q[1])]
       \/ args = [bits |-> bits,
                  x |-> Hex32(\hFF, \h80, \h40, \h20),
                  y |-> Hex32(\h00, \hFF, \hFF, \hFF)]
  /\ ret = <<>>

Call_p32AddusP32 ==
  /\ fn = "none"
  /\ fn' = "p32AddusP32"
  /\ ret' = p32AddusP32(args.bits, args.x, args.y)
  /\ UNCHANGED <<args, lazyVars>>

NextP32Addus == Call_p32AddusP32

SpecP32Addus == InitP32Addus /\ [][NextP32Addus]_vars

-----------------------------------------------------------------------------
(* SpecDiv255: u32Div255 on every 16-bit value.                            *)

InitDiv255 ==
  /\ LazyBase
  /\ fn = "none"
  /\ args \in [i : 0..(256 * 256 - 1)]
  /\ ret = <<>>

Call_u32Div255 ==
  /\ fn = "none"
  /\ fn' = "u32Div255"
  /\ ret' = u32Div255(U32(args.i))
  /\ UNCHANGED <<args, lazyVars>>

NextDiv255 == Call_u32Div255

SpecDiv255 == InitDiv255 /\ [][NextDiv255]_vars

-----------------------------------------------------------------------------
(* SpecHeadroom: the packed operations applied one after another to the    *)
(* two words of an unpacked pixel.  Each operation is applied to both      *)
(* words with the same operand, and only to words in its documented domain *)
(* [00.B1.00.B0].                                                          *)

\* How many operations are applied in a row.
MaxOps == 2
\* How many sample values the lanes of an operand take.
OperandSamples == 2

\* The upper 8 bits of each 16-bit lane of w are zero.
Headroom(w) == w[2] = 0 /\ w[4] = 0

\* Operand word i: lane B1 and lane B0 hold neighbouring sample values.
OperandWord(i) ==
  B32_1x2(SampleSeq[i], SampleSeq[(i % OperandSamples) + 1])

OperandWords == {OperandWord(i) : i \in 1..OperandSamples}

\* Two different operand words, for an operation that takes two.
OperandPairs ==
  {<<OperandWord(i), OperandWord((i % OperandSamples) + 1)>> :
     i \in 1..OperandSamples}

\* A weight and the operand word blended in with it.
OperandWeighted ==
  {<<U32(SampleSeq[i]), OperandWord(i)>> : i \in 1..OperandSamples}

\* Scalar operands in 0..255.
OperandScalars == {U32(v) : v \in Samples(OperandSamples)}

\* Shift counts: one bit, one byte, and one beyond the width of the word.
ShiftCounts == {1, 8, 33}

InitHeadroom ==
  /\ LazyBase
  /\ fn = "b32_2x2Unpack0213"
  /\ args = [n |-> 0]
  /\ \E p \in [1..4 -> Samples(OperandSamples)] :
       ret = b32_2x2Unpack0213(Hex32(p[4], p[3], p[2], p[1]))

\* Another operation may be applied to the words of ret.
CanApply == args.n < MaxOps /\ Headroom(ret[1]) /\ Headroom(ret[2])

\* The operation name has stored r.
Applied(name, r) ==
  /\ fn' = name
  /\ ret' = r
  /\ args' = [n |-> args.n + 1]
  /\ UNCHANGED lazyVars

Call_b32_1x2AddB32_1x2 ==
  /\ CanApply
  /\ \E b \in OperandWords :
       Applied("b32_1x2AddB32_1x2",
               <<b32_1x2AddB32_1x2(ret[1], b), b32_1x2AddB32_1x2(ret[2], b)>>)

Call_b32_1x2AddusB32_1x2 ==
  /\ CanApply
  /\ \E b \in OperandWords :
       Applied("b32_1x2AddusB32_1x2",
               <<b32_1x2AddusB32_1x2(ret[1], b),
                 b32_1x2AddusB32_1x2(ret[2], b)>>)

Call_b32_1x2SubB32_1x2 ==
  /\ CanApply
  /\ \E b \in OperandWords :
       Applied("b32_1x2SubB32_1x2",
               <<b32_1x2SubB32_1x2(ret[1], b), b32_1x2SubB32_1x2(ret[2], b)>>)

Call_b32_1x2SubusB32_1x2 ==
  /\ CanApply
  /\ \E b \in OperandWords :
       Applied("b32_1x2SubusB32_1x2",
               <<b32_1x2SubusB32_1x2(ret[1], b),
                 b32_1x2SubusB32_1x2(ret[2], b)>>)

Call_b32_1x2AddSubB32_1x2 ==
  /\ CanApply
  /\ \E bc \in OperandPairs :
       Applied("b32_1x2AddSubB32_1x2",
               <<b32_1x2AddSubB32_1x2(ret[1], bc[1], bc[2]),
                 b32_1x2AddSubB32_1x2(ret[2], bc[1], bc[2])>>)

Call_b32_1x2AddSubusB32_1x2 ==
  /\ CanApply
  /\ \E bc \in OperandPairs :
       Applied("b32_1x2AddSubusB32_1x2",
               <<b32_1x2AddSubusB32_1x2(ret[1], bc[1], bc[2]),
                 b32_1x2AddSubusB32_1x2(ret[2], bc[1], bc[2])>>)

Call_b32_1x2MulU ==
  /\ CanApply
  /\ \E u \in OperandScalars :
       Applied("b32_1x2MulU",
               <<b32_1x2MulU(ret[1], u), b32_1x2MulU(ret[2], u)>>)

Call_b32_1x2MulDiv255U ==
  /\ CanApply
  /\ \E u \in OperandScalars :
       Applied("b32_1x2MulDiv255U",
               <<b32_1x2MulDiv255U(ret[1], u), b32_1x2MulDiv255U(ret[2], u)>>)

\* The weight of a division by 256 is in 0..256.
Call_b32_1x2MulDiv256U ==
  /\ CanApply
  /\ \E u \in OperandScalars \cup {U32(256)} :
       Applied("b32_1x2MulDiv256U",
               <<b32_1x2MulDiv256U(ret[1], u), b32_1x2MulDiv256U(ret[2], u)>>)

Call_b32_1x2MulDiv255B32_1x2 ==
  /\ CanApply
  /\ \E b \in OperandWords :
       Applied("b32_1x2MulDiv255B32_1x2",
               <<b32_1x2MulDiv255B32_1x2(ret[1], b),
                 b32_1x2MulDiv255B32_1x2(ret[2], b)>>)

Call_b32_1x2MinU ==
  /\ CanApply
  /\ \E u \in OperandScalars :
       Applied("b32_1x2MinU",
               <<b32_1x2MinU(ret[1], u), b32_1x2MinU(ret[2], u)>>)

Call_b32_1x2MinB32_1x2 ==
  /\ CanApply
  /\ \E b \in OperandWords :
       Applied("b32_1x2MinB32_1x2",
               <<b32_1x2MinB32_1x2(ret[1], b), b32_1x2MinB32_1x2(ret[2], b)>>)

Call_b32_1x2MaxU ==
  /\ CanApply
  /\ \E u \in OperandScalars :
       Applied("b32_1x2MaxU",
               <<b32_1x2MaxU(ret[1], u), b32_1x2MaxU(ret[2], u)>>)

Call_b32_1x2MaxB32_1x2 ==
  /\ CanApply
  /\ \E b \in OperandWords :
       Applied("b32_1x2MaxB32_1x2",
               <<b32_1x2MaxB32_1x2(ret[1], b), b32_1x2MaxB32_1x2(ret[2], b)>>)

Call_b32_1x2ShiftLeftU ==
  /\ CanApply
  /\ \E u \in ShiftCounts :
       \E dst0 \in b32_1x2ShiftLeftU(ret[1], u),
          dst1 \in b32_1x2ShiftLeftU(ret[2], u) :
         Applied("b32_1x2ShiftLeftU", <<dst0, dst1>>)

Call_b32_1x2ShiftRightU ==
  /\ CanApply
  /\ \E u \in ShiftCounts :
       \E dst0 \in b32_1x2ShiftRightU(ret[1], u),
          dst1 \in b32_1x2ShiftRightU(ret[2], u) :
         Applied("b32_1x2ShiftRightU", <<dst0, dst1>>)

Call_b32_1x2Negate ==
  /\ CanApply
  /\ Applied("b32_1x2Negate",
             <<b32_1x2Negate(ret[1]), b32_1x2Negate(ret[2])>>)

\* The pixel ret premultiplied by its own alpha lane ret[2].B1.
Call_b32_2x2PremultiplyA_Words ==
  /\ CanApply
  /\ Applied("b32_2x2PremultiplyA", b32_2x2PremultiplyA(ret[1], ret[2]))

\* The pixel ret blended with the operand word c, with weights b and 255 - b.
Call_b32_2x2InterpolateU255_Words ==
  /\ CanApply
  /\ \E bc \in OperandWeighted :
       LET b == bc[1]
           c == bc[2]
           d == u32Negate255(b)
       IN Applied("b32_2x2InterpolateU255",
                  b32_2x2InterpolateU255(ret[1], b, c, d, ret[2], b, c, d))

\* The pixel ret blended with the operand word c, with weights b and 256 - b.
Call_b32_2x2InterpolateU256_Words ==
  /\ CanApply
  /\ \E bc \in OperandWeighted :
       LET b == bc[1]
           c == bc[2]
           d == WSub(U32(256), b)
       IN Applied("b32_2x2InterpolateU256",
                  b32_2x2InterpolateU256(ret[1], b, c, d, ret[2], b, c, d))

NextHeadroom ==
  \/ Call_b32_1x2AddB32_1x2
  \/ Call_b32_1x2AddusB32_1x2
  \/ Call_b32_1x2SubB32_1x2
  \/ Call_b32_1x2SubusB32_1x2
  \/ Call_b32_1x2AddSubB32_1x2
  \/ Call_b32_1x2AddSubusB32_1x2
  \/ Call_b32_1x2MulU
  \/ Call_b32_1x2MulDiv255U
  \/ Call_b32_1x2MulDiv256U
  \/ Call_b32_1x2MulDiv255B32_1x2
  \/ Call_b32_1x2MinU
  \/ Call_b32_1x2MinB32_1x2
  \/ Call_b32_1x2MaxU
  \/ Call_b32_1x2MaxB32_1x2
  \/ Call_b32_1x2ShiftLeftU
  \/ Call_b32_1x2ShiftRightU
  \/ Call_b32_1x2Negate
  \/ Call_b32_2x2PremultiplyA_Words
  \/ Call_b32_2x2InterpolateU255_Words
  \/ Call_b32_2x2InterpolateU256_Words

SpecHeadroom == InitHeadroom /\ [][NextHeadroom]_vars

-----------------------------------------------------------------------------
(* SpecAddSub2x2: b32_2x2AddSubB32_2x2 on two words.  dst0 and dst1 are    *)
(* references: d1 is what the caller's dst1 holds before the call, which   *)
(* may be any word.                                                        *)

\* Values a caller's variable may hold before it is first assigned.
PriorWords == OperandWords \cup {Hex32(\hDE, \hAD, \hBE, \hEF)}

InitAddSub2x2 ==
  /\ LazyBase
  /\ fn = "none"
  /\ \E a0 \in OperandWords, b0 \in OperandWords, c0 \in OperandWords,
        a1 \in OperandWords, b1 \in OperandWords, c1 \in OperandWords,
        d1 \in PriorWords :
       args = [a0 |-> a0, b0 |-> b0, c0 |-> c0,
               a1 |-> a1, b1 |-> b1, c1 |-> c1, d1 |-> d1]
  /\ ret = <<>>

Call_b32_2x2AddSubB32_2x2 ==
  /\ fn = "none"
  /\ fn' = "b32_2x2AddSubB32_2x2"
  /\ ret' = b32_2x2AddSubB32_2x2(args.a0, args.b0, args.c0,
                                 args.d1, args.a1, args.b1, args.c1)
  /\ UNCHANGED <<args, lazyVars>>

NextAddSub2x2 == Call_b32_2x2AddSubB32_2x2

SpecAddSub2x2 == InitAddSub2x2 /\ [][NextAddSub2x2]_vars

-----------------------------------------------------------------------------
(* SpecMulDiv256: b32_2x2MulDiv256U on two words, for every weight u in    *)
(* 0..256.  d1 is what the caller's dst1 holds before the call.            *)

InitMulDiv256 ==
  /\ LazyBase
  /\ fn = "none"
  /\ \E a0 \in OperandWords, a1 \in OperandWords, u \in 0..(ByteMax + 1),
        d1 \in PriorWords :
       args = [a0 |-> a0, a1 |-> a1, u |-> U32(u), d1 |-> d1]
  /\ ret = <<>>

Call_b32_2x2MulDiv256U ==
  /\ fn = "none"
  /\ fn' = "b32_2x2MulDiv256U"
  /\ ret' = b32_2x2MulDiv256U(args.a0, args.d1, args.a1, args.u)
  /\ UNCHANGED <<args, lazyVars>>

NextMulDiv256 == Call_b32_2x2MulDiv256U

SpecMulDiv256 == InitMulDiv256 /\ [][NextMulDiv256]_vars

-----------------------------------------------------------------------------
(* SpecP32Mul: the P32 multiplications of a tight pixel x by a weight a,   *)
(* in both builds.  The weight sweeps 0..255 on sample pixels, and each    *)
(* channel of a sample pixel sweeps 0..255 with sample weights.            *)

\* How many sample pixels and sample weights there are.
P32Samples == 2

\* Sample pixel j: four neighbouring sample values as its channels.
SamplePixel(j) ==
  Hex32(SampleSeq[j + 3], SampleSeq[j + 2], SampleSeq[j + 1], SampleSeq[j])

\* Sample weights: the sample values after the first, which is 0.
SampleWeights(n) == {SampleSeq[i + 1] : i \in 1..n}

InitP32Mul ==
  /\ LazyBase
  /\ fn = "none"
  /\ \E bits \in FOG_ARCH_BITS, j \in 1..P32Samples :
       \/ \E a \in Byte :
            args = [bits |-> bits, x |-> SamplePixel(j), a |-> U32(a)]
       \/ \E i \in 1..4, v \in Byte, a \in SampleWeights(P32Samples) :
            args = [bits |-> bits,
                    x |-> Sweep(SamplePixel(j), i, v),
                    a |-> U32(a)]
  /\ ret = <<>>

Call_p32MulDiv255U ==
  /\ fn = "none"
  /\ fn' = "p32MulDiv255U"
  /\ ret' = p32MulDiv255U(args.bits, args.x, args.a)
  /\ UNCHANGED <<args, lazyVars>>

Call_p32MulDiv255U_0XXX ==
  /\ fn = "none"
  /\ fn' = "p32MulDiv255U_0XXX"
  /\ ret' = p32MulDiv255U_0XXX(args.bits, args.x, args.a)
  /\ UNCHANGED <<args, lazyVars>>

Call_p32MulDiv255U_FXXX ==
  /\ fn = "none"
  /\ fn' = "p32MulDiv255U_FXXX"
  /\ ret' = p32MulDiv255U_FXXX(args.bits, args.x, args.a)
  /\ UNCHANGED <<args, lazyVars>>

NextP32Mul ==
  \/ Call_p32MulDiv255U
  \/ Call_p32MulDiv255U_0XXX
  \/ Call_p32MulDiv255U_FXXX

SpecP32Mul == InitP32Mul /\ [][NextP32Mul]_vars

-----------------------------------------------------------------------------
(* SpecInterp: the interpolations of two unpacked pixels (a0, a1) and      *)
(* (c0, c1) with the weights b0, d0 and b1, d1.  The weight b0 sweeps      *)
(* 0..255; d0 is 0, 255 - b0 or 256 - b0.                                  *)

InitInterp ==
  /\ LazyBase
  /\ fn = "none"
  /\ \E ac0 \in OperandPairs, ac1 \in OperandPairs, b0 \in Byte,
        b1 \in SampleWeights(OperandSamples) :
       \E d0 \in {0, ByteMax - b0, ByteMax + 1 - b0} :
         args = [a0 |-> ac0[1], b0 |-> U32(b0), c0 |-> ac0[2], d0 |-> U32(d0),
                 a1 |-> ac1[1], b1 |-> U32(b1), c1 |-> ac1[2],
                 d1 |-> U32(ByteMax - b1)]
  /\ ret = <<>>

Call_b32_2x2InterpolateU255 ==
  /\ fn = "none"
  /\ fn' = "b32_2x2InterpolateU255"
  /\ ret' = b32_2x2InterpolateU255(args.a0, args.b0, args.c0, args.d0,
                                   args.a1, args.b1, args.c1, args.d1)
  /\ UNCHANGED <<args, lazyVars>>

Call_b32_2x2InterpolateU256 ==
  /\ fn = "none"
  /\ fn' = "b32_2x2InterpolateU256"
  /\ ret' = b32_2x2InterpolateU256(args.a0, args.b0, args.c0, args.d0,
                                   args.a1, args.b1, args.c1, args.d1)
  /\ UNCHANGED <<args, lazyVars>>

Call_b32_2x2InterpolateU255_Pack0213 ==
  /\ fn = "none"
  /\ fn' = "b32_2x2InterpolateU255_Pack0213"
  /\ ret' = b32_2x2InterpolateU255_Pack0213(
              args.a0, args.b0, args.c0, args.d0,
              args.a1, args.b1, args.c1, args.d1)
  /\ UNCHANGED <<args, lazyVars>>

Call_b32_2x2InterpolateU256_Pack0213 ==
  /\ fn = "none"
  /\ fn' = "b32_2x2InterpolateU256_Pack0213"
  /\ ret' = b32_2x2InterpolateU256_Pack0213(
              args.a0, args.b0, args.c0, args.d0,
              args.a1, args.b1, args.c1, args.d1)
  /\ UNCHANGED <<args, lazyVars>>

NextInterp ==
  \/ Call_b32_2x2InterpolateU255
  \/ Call_b32_2x2InterpolateU256
  \/ Call_b32_2x2InterpolateU255_Pack0213
  \/ Call_b32_2x2InterpolateU256_Pack0213

SpecInterp == InitInterp /\ [][NextInterp]_vars

-----------------------------------------------------------------------------
(* SpecMinMax: b32_1x2MinU and b32_1x2MaxU on a word a0 and a scalar u.    *)
(* Each lane of a0 and the scalar sweeps 0..255 in turn.                   *)

\* a0 = [B1, B0] and u from the tuple <<a0.B0, a0.B1, u>>.
InitMinMax ==
  /\ LazyBase
  /\ fn = "none"
  /\ \E s \in [1..3 -> Samples(LaneSamples)], i \in 1..3, v \in Byte :
       LET t == Sweep(s, i, v)
       IN args = [a0 |-> B32_1x2(t[2], t[1]), u |-> U32(t[3])]
  /\ ret = <<>>

Call_b32_1x2MinU_Scalar ==
  /\ fn = "none"
  /\ fn' = "b32_1x2MinU"
  /\ ret' = b32_1x2MinU(args.a0, args.u)
  /\ UNCHANGED <<args, lazyVars>>

Call_b32_1x2MaxU_Scalar ==
  /\ fn = "none"
  /\ fn' = "b32_1x2MaxU"
  /\ ret' = b32_1x2MaxU(args.a0, args.u)
  /\ UNCHANGED <<args, lazyVars>>

NextMinMax ==
  \/ Call_b32_1x2MinU_Scalar
  \/ Call_b32_1x2MaxU_Scalar

SpecMinMax == InitMinMax /\ [][NextMinMax]_vars

-----------------------------------------------------------------------------
(* SpecPremulAlpha: b32_2x2PremultiplyA for every colour c and every       *)
(* alpha: the pixel has c in dst0.B0 and dst1.B0 and 255 - c in dst0.B1.   *)

InitPremulAlpha ==
  /\ LazyBase
  /\ fn = "none"
  /\ \E c \in Byte, alpha \in Byte :
       args = [a0 |-> B32_1x2(ByteMax - c, c), a1 |-> B32_1x2(alpha, c)]
  /\ ret = <<>>

SpecPremulAlpha == InitPremulAlpha /\ [][NextPremul]_vars

-----------------------------------------------------------------------------
(* SpecTwoTerm: b32_1x2MulDiv255U_2x_Add on two words and                  *)
(* p32_2x4MulDiv255U32_Add on two tight pixels, with two weights that are  *)
(* independent of each other.                                              *)

\* The pairs of weights: one weight sweeps 0..255 beside a sample weight or
\* beside its complement to 255.
WeightPairs ==
  {<<v, w>> : v \in Byte, w \in SampleWeights(OperandSamples)}
    \cup {<<w, v>> : v \in Byte, w \in SampleWeights(OperandSamples)}
    \cup {<<v, ByteMax - v>> : v \in Byte}

\* The pairs of sample weights: equal weights, and complements to 255.
SampleWeightPairs ==
  {<<w, w>> : w \in SampleWeights(OperandSamples)}
    \cup {<<w, ByteMax - w>> : w \in SampleWeights(OperandSamples)}

\* Sample words under every pair of weights, and one lane of a0 or one byte
\* of x0 sweeping 0..255 under the sample weights.
InitTwoTerm ==
  /\ LazyBase
  /\ fn = "none"
  /\ \/ \E ac \in OperandPairs, bd \in WeightPairs :
          args = [a0 |-> ac[1], b0 |-> U32(bd[1]),
                  c0 |-> ac[2], d0 |-> U32(bd[2])]
     \/ \E ac \in OperandPairs, bd \in SampleWeightPairs,
           lane \in 1..2, v \in Byte :
          args = [a0 |-> Sweep(ac[1], 2 * lane - 1, v), b0 |-> U32(bd[1]),
                  c0 |-> ac[2], d0 |-> U32(bd[2])]
     \/ \E j \in 1..P32Samples, bd \in WeightPairs :
          args = [x0 |-> SamplePixel(j), a0 |-> U32(bd[1]),
                  y0 |-> SamplePixel((j % P32Samples) + 1),
                  b0 |-> U32(bd[2])]
     \/ \E j \in 1..P32Samples, bd \in SampleWeightPairs,
           c \in 1..4, v \in Byte :
          args = [x0 |-> Sweep(SamplePixel(j), c, v), a0 |-> U32(bd[1]),
                  y0 |-> SamplePixel((j % P32Samples) + 1),
                  b0 |-> U32(bd[2])]
  /\ ret = <<>>

Call_b32_1x2MulDiv255U_2x_Add ==
  /\ fn = "none"
  /\ "c0" \in DOMAIN args
  /\ fn' = "b32_1x2MulDiv255U_2x_Add"
  /\ ret' = b32_1x2MulDiv255U_2x_Add(args.a0, args.b0, args.c0, args.d0)
  /\ UNCHANGED <<args, lazyVars>>

Call_p32_2x4MulDiv255U32_Add ==
  /\ fn = "none"
  /\ "x0" \in DOMAIN args
  /\ fn' = "p32_2x4MulDiv255U32_Add"
  /\ ret' = p32_2x4MulDiv255U32_Add(args.x0, args.a0, args.y0, args.b0)
  /\ UNCHANGED <<args, lazyVars>>

NextTwoTerm ==
  \/ Call_b32_1x2MulDiv255U_2x_Add
  \/ Call_p32_2x4MulDiv255U32_Add

SpecTwoTerm == InitTwoTerm /\ [][NextTwoTerm]_vars

-----------------------------------------------------------------------------
(* SpecAddSubus: b32_1x2AddSubusB32_1x2 on three words.  Lane B0 holds the *)
(* triple (a, b, c) and lane B1 the triple (c, a, b); each of the three    *)
(* values sweeps 0..255 in turn.                                           *)

InitAddSubus ==
  /\ LazyBase
  /\ fn = "none"
  /\ \E s \in [1..3 -> Samples(LaneSamples)], i \in 1..3, v \in Byte :
       LET t == Sweep(s, i, v)
       IN args = [a0 |-> B32_1x2(t[3], t[1]), b0 |-> B32_1x2(t[1], t[2]),
                  c0 |-> B32_1x2(t[2], t[3])]
  /\ ret = <<>>

Call_b32_1x2AddSubusB32_1x2_Lanes ==
  /\ fn = "none"
  /\ fn' = "b32_1x2AddSubusB32_1x2"
  /\ ret' = b32_1x2AddSubusB32_1x2(args.a0, args.b0, args.c0)
  /\ UNCHANGED <<args, lazyVars>>

NextAddSubus == Call_b32_1x2AddSubusB32_1x2_Lanes

SpecAddSubus == InitAddSubus /\ [][NextAddSubus]_vars

-----------------------------------------------------------------------------
(* SpecLane: the single-lane helpers on a word a0 and a value u.  Each     *)
(* lane of a0 and the value sweeps 0..255 in turn.                         *)

\* a0 = [B1, B0] and u from the tuple <<a0.B0, a0.B1, u>>.
InitLane ==
  /\ LazyBase
  /\ fn = "none"
  /\ \E s \in [1..3 -> Samples(OperandSamples)], i \in 1..3, v \in Byte :
       LET t == Sweep(s, i, v)
       IN args = [a0 |-> B32_1x2(t[2], t[1]), u |-> U32(t[3])]
  /\ ret = <<>>

Call_b32_1x2ZeroB0 ==
  /\ fn = "none"
  /\ fn' = "b32_1x2ZeroB0"
  /\ ret' = b32_1x2ZeroB0(args.a0)
  /\ UNCHANGED <<args, lazyVars>>

Call_b32_1x2ZeroB1 ==
  /\ fn = "none"
  /\ fn' = "b32_1x2ZeroB1"
  /\ ret' = b32_1x2ZeroB1(args.a0)
  /\ UNCHANGED <<args, lazyVars>>

Call_b32_1x2FillB0 ==
  /\ fn = "none"
  /\ fn' = "b32_1x2FillB0"
  /\ ret' = b32_1x2FillB0(args.a0)
  /\ UNCHANGED <<args, lazyVars>>

Call_b32_1x2FillB1 ==
  /\ fn = "none"
  /\ fn' = "b32_1x2FillB1"
  /\ ret' = b32_1x2FillB1(args.a0)
  /\ UNCHANGED <<args, lazyVars>>

Call_b32_1x2SetB0 ==
  /\ fn = "none"
  /\ fn' = "b32_1x2SetB0"
  /\ ret' = b32_1x2SetB0(args.a0, args.u)
  /\ UNCHANGED <<args, lazyVars>>

Call_b32_1x2SetB1 ==
  /\ fn = "none"
  /\ fn' = "b32_1x2SetB1"
  /\ ret' = b32_1x2SetB1(args.a0, args.u)
  /\ UNCHANGED <<args, lazyVars>>

NextLane ==
  \/ Call_b32_1x2ZeroB0
  \/ Call_b32_1x2ZeroB1
  \/ Call_b32_1x2FillB0
  \/ Call_b32_1x2FillB1
  \/ Call_b32_1x2SetB0
  \/ Call_b32_1x2SetB1

SpecLane == InitLane /\ [][NextLane]_vars

-----------------------------------------------------------------------------
(* SpecBuilds: the five P32 functions that have a FOG_ARCH_BITS == 64      *)
(* branch and a 32-bit branch, on two tight pixels x, y and a weight a.    *)

\* Sample pixels under every weight, and one byte of x sweeping 0..255
\* (the same byte of y sweeping 255..0) under a sample weight.
InitBuilds ==
  /\ LazyBase
  /\ fn = "none"
  /\ \E bits \in FOG_ARCH_BITS, j \in 1..P32Samples :
       \/ \E a \in Byte :
            args = [bits |-> bits, x |-> SamplePixel(j), a |-> U32(a),
                    y |-> SamplePixel((j % P32Samples) + 1)]
       \/ \E c \in 1..4, v \in Byte :
            args = [bits |-> bits,
                    x |-> Sweep(SamplePixel(j), c, v),
                    a |-> U32(SampleSeq[j + 1]),
                    y |-> Sweep(SamplePixel((j % P32Samples) + 1), c,
                                ByteMax - v)]
  /\ ret = <<>>

Call_p32MulDiv255U_AddusP32 ==
  /\ fn = "none"
  /\ fn' = "p32MulDiv255U_AddusP32"
  /\ ret' = p32MulDiv255U_AddusP32(args.bits, args.x, args.a, args.y)
  /\ UNCHANGED <<args, lazyVars>>

NextBuilds ==
  \/ Call_p32MulDiv255U
  \/ Call_p32MulDiv255U_0XXX
  \/ Call_p32MulDiv255U_FXXX
  \/ Call_p32AddusP32
  \/ Call_p32MulDiv255U_AddusP32

SpecBuilds == InitBuilds /\ [][NextBuilds]_vars

-----------------------------------------------------------------------------
(* SpecLazy: threads calling LazyBase::_get on one LazyBase, interleaved   *)
(* at the atomic operations.  SpecLazyFair adds the fair scheduling of the *)
(* threads inside _get, a _create that terminates included.                *)

InitLazy ==
  /\ LazyBase
  /\ fn = "none"
  /\ args = <<>>
  /\ ret = <<>>

\* One step of thread t inside _get.
Step(t) ==
  \/ Get(t)
  \/ CmpXchg(t)
  \/ Create(t)
  \/ Set(t)
  \/ Spin(t)
  \/ Yield(t)
  \/ Return(t)

NextLazy ==
  /\ \E t \in Threads : Call_get(t) \/ Step(t)
  /\ UNCHANGED <<fn, args, ret>>

SpecLazy == InitLazy /\ [][NextLazy]_vars

SpecLazyFair ==
  SpecLazy /\ \A t \in Threads : WF_vars(Step(t) /\ UNCHANGED <<fn, args, ret>>)

-----------------------------------------------------------------------------
(* Properties.                                                             *)

\* C1: for all x, y in 0..255 the branch-free u32Addus(x, y) returns
\* min(x + y, 255).
C1_AddusIsMin ==
  fn = "u32Addus" => ret = U32(Min(args.x + args.y, ByteMax))

\* u32Addus has saturated 200 + 100 to 255.
C1_Witness ==
  fn = "u32Addus" /\ args.x = 200 /\ args.y = 100 /\ ret = U32(255)

\* C2: for all x, y in 0..255 the branch-free u32Subus(x, y) returns
\* max(x - y, 0).
C2_SubusIsMax ==
  fn = "u32Subus" => ret = U32(Max(args.x - args.y, 0))

\* u32Subus has clamped 100 - 200, which wraps below zero, to 0.
C2_Witness ==
  fn = "u32Subus" /\ args.x = 100 /\ args.y = 200 /\ ret = U32(0)

\* C3: for all x, a in 0..255, u32MulDiv255(x, a) differs from x * a / 255
\* rounded to the nearest integer by at most 1.
C3_MulDiv255WithinOne ==
  fn = "u32MulDiv255" =>
    Abs(ToNat(ret) - Round255(args.x * args.y)) <= 1

\* u32MulDiv255(152, 229) has returned 136, one below the nearest integer
\* to 34808 / 255 = 136.502.
C3_Witness ==
  /\ fn = "u32MulDiv255" /\ args.x = 152 /\ args.y = 229
  /\ ret = U32(136)
  /\ Round255(args.x * args.y) = 137

\* C4: for all x in 0..255, u32MulDiv255(x, 255) = x and
\* u32MulDiv255(x, 0) = 0.
C4_MulDiv255Boundary ==
  fn = "u32MulDiv255" =>
    /\ args.y = 255 => ret = U32(args.x)
    /\ args.y = 0 => ret = U32(0)

\* u32MulDiv255(77, 255) has returned 77.
C4_Witness ==
  fn = "u32MulDiv255" /\ args.x = 77 /\ args.y = 255 /\ ret = U32(77)

\* C5: for all x, a in 0..255, u32Lerp255(x, x, a) = x: blending a value
\* with itself returns it for every weight.
C5_LerpSameValue ==
  (fn = "u32Lerp255" /\ args.y = args.x) => ret = U32(args.x)

\* u32Lerp255(200, 200, 77) has returned 200.
C5_Witness ==
  /\ fn = "u32Lerp255" /\ args.x = 200 /\ args.y = 200 /\ args.a = 77
  /\ ret = U32(200)

\* C6: for all x in 0..255, u32Negate255(x) = 255 - x and
\* u32Negate255(u32Negate255(x)) = x.
C6_Negate255 ==
  /\ fn = "u32Negate255" => ret = U32(ByteMax - args.x)
  /\ fn = "u32Negate255(u32Negate255)" => ret = U32(args.x)

\* u32Negate255 applied twice to 37 has returned 37.
C6_Witness ==
  fn = "u32Negate255(u32Negate255)" /\ args.x = 37 /\ ret = U32(37)

\* C7: for every tight pixel p, b32_2x2Pack0213 of the two words of
\* b32_2x2Unpack0213(p) is p, and b64_1x4Pack0213(b64_1x4Unpack0213(p)) is p.
C7_PackUnpackRoundTrip ==
  /\ fn = "b32_2x2Pack0213" => ret = args.p
  /\ fn = "b64_1x4Pack0213" => ret = args.p

\* The pixel 0xFF804020 has been unpacked into a b64_1x4 and packed again.
C7_Witness ==
  /\ fn = "b64_1x4Pack0213"
  /\ args.p = Hex32(\hFF, \h80, \h40, \h20)
  /\ ret = Hex32(\hFF, \h80, \h40, \h20)

\* C8: for every unpacked pixel whose alpha lane a1.B1 is 255,
\* b32_2x2PremultiplyA leaves the colour lanes unchanged: dst0 = a0 and
\* dst1.B0 = a1.B0.
C8_PremultiplyOpaque ==
  (fn = "b32_2x2PremultiplyA" /\ LaneB1(args.a1) = ByteMax) =>
    /\ ret[1] = args.a0
    /\ LaneB0(ret[2]) = LaneB0(args.a1)

\* An opaque pixel with the colours 77, 128, 128 has been premultiplied.
C8_Witness ==
  /\ fn = "b32_2x2PremultiplyA"
  /\ args.a0 = B32_1x2(128, 77)
  /\ args.a1 = B32_1x2(255, 128)
  /\ ret = <<B32_1x2(128, 77), B32_1x2(255, 128)>>

\* C9: each byte of p32AddusP32(x, y) is min(x_c + y_c, 255) of the bytes
\* of x and y at the same place, with no carry between channels; in
\* particular p32AddusP32(0xFF804020, 0x00FFFFFF) = 0xFFFFFFFF.
C9_P32AddusPerByte ==
  fn = "p32AddusP32" =>
    /\ \A c \in 1..4 : ret[c] = Min(args.x[c] + args.y[c], ByteMax)
    /\ (/\ args.x = Hex32(\hFF, \h80, \h40, \h20)
        /\ args.y = Hex32(\h00, \hFF, \hFF, \hFF))
         => ret = Hex32(\hFF, \hFF, \hFF, \hFF)

\* p32AddusP32(0xFF804020, 0x00FFFFFF) has returned 0xFFFFFFFF in the
\* 64-bit build.
C9_Witness ==
  /\ fn = "p32AddusP32" /\ args.bits = 64
  /\ args.x = Hex32(\hFF, \h80, \h40, \h20)
  /\ args.y = Hex32(\h00, \hFF, \hFF, \hFF)
  /\ ret = Hex32(\hFF, \hFF, \hFF, \hFF)

\* C10: each lane of b32_1x2MulDiv255U_AddusB32_1x2(dst0, a0, b0, c0) is
\* min(u32MulDiv255(a_lane, b0) + c_lane, 255), for all lanes of a0 and c0
\* and every weight b0 in 0..255; with a = 0x80, b = 0x80, c = 0x40 the lane
\* is 0x80.  b32_1x2Saturate clamps both lanes with BYTE1x2MASK_PLUS_ONE.
C10_MulDiv255AddusPerLane ==
  fn = "b32_1x2MulDiv255U_AddusB32_1x2" =>
    /\ LaneB0(ret) =
         Min(ToNat(u32MulDiv255(U32(LaneB0(args.a0)), args.b0))
               + LaneB0(args.c0), ByteMax)
    /\ LaneB1(ret) =
         Min(ToNat(u32MulDiv255(U32(LaneB1(args.a0)), args.b0))
               + LaneB1(args.c0), ByteMax)
    /\ (/\ LaneB0(args.a0) = \h80 /\ args.b0 = U32(\h80)
        /\ LaneB0(args.c0) = \h40)
         => LaneB0(ret) = \h80

\* Lane B0 holds 0x80 * 0x80 / 255 + 0x40 = 0x80 while lane B1 has
\* saturated (255 * 0x80 / 255 + 255) to 255.
C10_Witness ==
  /\ fn = "b32_1x2MulDiv255U_AddusB32_1x2"
  /\ args.a0 = B32_1x2(\hFF, \h80)
  /\ args.b0 = U32(\h80)
  /\ args.c0 = B32_1x2(\hFF, \h40)
  /\ ret = B32_1x2(\hFF, \h80)

\* C11: for every 16-bit value v, u32Div255(v) is v / 255 rounded to the
\* nearest integer, not the truncated quotient.
C11_Div255RoundsToNearest ==
  fn = "u32Div255" => ToNat(ret) = Round255(args.i)

\* The operations that leave their sums, differences, products or shifted
\* bits as they are, neither saturated nor masked.
RawOps ==
  {"b32_1x2AddB32_1x2", "b32_1x2SubB32_1x2", "b32_1x2AddSubB32_1x2",
   "b32_1x2MulU", "b32_1x2ShiftLeftU", "b32_1x2ShiftRightU"}

\* C12 as stated: after any of the packed operations, applied to words of
\* b32_2x2Unpack0213 or to results of earlier operations, the upper 8 bits
\* of each 16-bit lane are zero.
C12_HeadroomAfterAnyOp ==
  Headroom(ret[1]) /\ Headroom(ret[2])

\* C12 as amended: the upper 8 bits of each lane are zero after every
\* operation except the raw ones (add, sub, addSub, mulU, shiftLeft,
\* shiftRight), whatever sequence of such operations came before.
C12_HeadroomAfterClosedOps ==
  fn \notin RawOps => Headroom(ret[1]) /\ Headroom(ret[2])

\* A saturating add, applied as the second operation, has clamped the lanes
\* of both words to 255.
C12_Witness ==
  /\ fn = "b32_1x2AddusB32_1x2"
  /\ args.n = 2
  /\ ret = <<B32_1x2(255, 255), B32_1x2(255, 255)>>

\* C13: b32_2x2AddSubB32_2x2 is b32_1x2AddSubB32_1x2 on each word: on
\* return dst0 = a0 + b0 - c0 and dst1 = a1 + b1 - c1.
C13_AddSub2x2EachWord ==
  fn = "b32_2x2AddSubB32_2x2" =>
    /\ ret[1] = b32_1x2AddSubB32_1x2(args.a0, args.b0, args.c0)
    /\ ret[2] = b32_1x2AddSubB32_1x2(args.a1, args.b1, args.c1)

\* C14: b32_2x2MulDiv256U is b32_1x2MulDiv256U on each word: on return
\* dst0 = ((a0 * u) >> 8) & 0x00FF00FF and dst1 = ((a1 * u) >> 8) &
\* 0x00FF00FF, for all lanes in 0..255 and u in 0..256.
C14_MulDiv256EachWord ==
  fn = "b32_2x2MulDiv256U" =>
    /\ ret[1] = WAnd(WShr(WMul(args.a0, args.u), 8),
                     Hex32(\h00, \hFF, \h00, \hFF))
    /\ ret[2] = WAnd(WShr(WMul(args.a1, args.u), 8),
                     Hex32(\h00, \hFF, \h00, \hFF))

\* C15: for every tight pixel x and weight a in 0..255, p32MulDiv255U(x, a)
\* is b32_2x2Pack0213 of what b32_2x2MulDiv255U stores for the two words of
\* b32_2x2Unpack0213(x) and the weight a; each byte of the result is
\* u32MulDiv255(x_c, a).
C15_P32MulDiv255IsUnpackMulPack ==
  fn = "p32MulDiv255U" =>
    LET w == b32_2x2Unpack0213(args.x)
        d == b32_2x2MulDiv255U(w[1], w[2], args.a)
    IN /\ ret = b32_2x2Pack0213(d[1], d[2])
       /\ \A c \in 1..4 :
            ret[c] = ToNat(u32MulDiv255(U32(args.x[c]), args.a))

\* p32MulDiv255U(0x0180FF00, 0x80) has returned 0x01408000 in the 32-bit
\* build.
C15_Witness ==
  /\ fn = "p32MulDiv255U" /\ args.bits = 32
  /\ args.x = Hex32(\h01, \h80, \hFF, \h00)
  /\ args.a = U32(\h80)
  /\ ret = Hex32(\h01, \h40, \h80, \h00)

\* C16: for every tight pixel x and a in 0..255, the top byte of
\* p32MulDiv255U_FXXX(x, a) is 0xFF, the top byte of p32MulDiv255U_0XXX(x, a)
\* is 0x00, and the three lower bytes of both are the three lower bytes of
\* p32MulDiv255U(x, a).
C16_P32MulDiv255ForcedAlpha ==
  LET p == p32MulDiv255U(args.bits, args.x, args.a)
  IN /\ fn = "p32MulDiv255U_FXXX" =>
          ret[4] = \hFF /\ \A c \in 1..3 : ret[c] = p[c]
     /\ fn = "p32MulDiv255U_0XXX" =>
          ret[4] = \h00 /\ \A c \in 1..3 : ret[c] = p[c]

\* p32MulDiv255U_FXXX(0x0180FF00, 0x80) has returned 0xFF408000 in the
\* 64-bit build: the alpha byte 0x01 of x has become 0xFF.
C16_Witness ==
  /\ fn = "p32MulDiv255U_FXXX" /\ args.bits = 64
  /\ args.x = Hex32(\h01, \h80, \hFF, \h00)
  /\ args.a = U32(\h80)
  /\ ret = Hex32(\hFF, \h40, \h80, \h00)

\* (t + (t >> 8) + 128) >> 8: the rounding division by 255 of a sum of
\* products t, as a number.
RoundDiv255(t) == (t + (t \div 256) + 128) \div 256

\* The weights of an interpolation by 255 are in their domain: b + d <= 255.
InterpDomain255 ==
  /\ ToNat(args.b0) + ToNat(args.d0) <= ByteMax
  /\ ToNat(args.b1) + ToNat(args.d1) <= ByteMax

\* C17: for lanes in 0..255 and weights with b + d <= 255,
\* b32_2x2InterpolateU255 stores in each lane of dst0 and dst1 the rounding
\* division by 255 of a * b + c * d, the values b32_2x2MulDiv255U_2x_Add
\* stores for the same arguments.
C17_InterpolateU255Divides ==
  (fn = "b32_2x2InterpolateU255" /\ InterpDomain255) =>
    /\ ret = b32_2x2MulDiv255U_2x_Add(args.a0, args.b0, args.c0, args.d0,
                                      args.a1, args.b1, args.c1, args.d1)
    /\ LaneB0(ret[1]) =
         RoundDiv255(LaneB0(args.a0) * ToNat(args.b0)
                       + LaneB0(args.c0) * ToNat(args.d0))
    /\ LaneB1(ret[1]) =
         RoundDiv255(LaneB1(args.a0) * ToNat(args.b0)
                       + LaneB1(args.c0) * ToNat(args.d0))
    /\ LaneB0(ret[2]) =
         RoundDiv255(LaneB0(args.a1) * ToNat(args.b1)
                       + LaneB0(args.c1) * ToNat(args.d1))
    /\ LaneB1(ret[2]) =
         RoundDiv255(LaneB1(args.a1) * ToNat(args.b1)
                       + LaneB1(args.c1) * ToNat(args.d1))

\* C18: each Pack0213 interpolation returns b32_2x2Pack0213 of the dst0 and
\* dst1 its two-word variant stores for the same arguments, for lanes in
\* 0..255 and weights with b + d <= 255 (by 255) or b + d <= 256 (by 256).
C18_InterpolatePackIsPackOfWords ==
  /\ (fn = "b32_2x2InterpolateU255_Pack0213" /\ InterpDomain255) =>
       LET w == b32_2x2InterpolateU255(args.a0, args.b0, args.c0, args.d0,
                                       args.a1, args.b1, args.c1, args.d1)
       IN ret = b32_2x2Pack0213(w[1], w[2])
  /\ fn = "b32_2x2InterpolateU256_Pack0213" =>
       LET w == b32_2x2InterpolateU256(args.a0, args.b0, args.c0, args.d0,
                                       args.a1, args.b1, args.c1, args.d1)
       IN ret = b32_2x2Pack0213(w[1], w[2])

\* b32_2x2InterpolateU255_Pack0213 has returned 0x7F807F80 for the words
\* a = 0x00FF0000, c = 0x000000FF of both halves and the weights 0, 0 and
\* 128, 127: the pack of the words 0x00800080 and 0x007F007F.
C18_Witness ==
  /\ fn = "b32_2x2InterpolateU255_Pack0213"
  /\ args.a0 = B32_1x2(255, 0) /\ args.c0 = B32_1x2(0, 255)
  /\ args.a1 = B32_1x2(255, 0) /\ args.c1 = B32_1x2(0, 255)
  /\ args.b0 = U32(0) /\ args.d0 = U32(0)
  /\ args.b1 = U32(128) /\ args.d1 = U32(127)
  /\ ret = Hex32(\h7F, \h80, \h7F, \h80)

\* C19: for all lanes of a0 in 0..255 and every scalar u in 0..255,
\* b32_1x2MaxU stores max(a0.B0, u) in the low lane and max(a0.B1, u) in the
\* high lane of dst0.
C19_MaxUPerLane ==
  fn = "b32_1x2MaxU" =>
    /\ LaneB0(ret) = Max(LaneB0(args.a0), ToNat(args.u))
    /\ LaneB1(ret) = Max(LaneB1(args.a0), ToNat(args.u))

\* C20: for every unpacked pixel (a0, a1) with lanes in 0..255 and alpha =
\* a1.B1, b32_2x2PremultiplyA stores the alpha itself in dst1.B1 and
\* u32MulDiv255(colour, alpha) in every colour lane: dst0.B0 and dst0.B1,
\* rounded two lanes at a time with the masked term, and dst1.B0, rounded
\* alone without the mask.
C20_PremultiplyPathsConverge ==
  fn = "b32_2x2PremultiplyA" =>
    LET alpha == LaneB1(args.a1)
        Scaled(colour) == ToNat(u32MulDiv255(U32(colour), U32(alpha)))
    IN /\ LaneB1(ret[2]) = alpha
       /\ LaneB0(ret[1]) = Scaled(LaneB0(args.a0))
       /\ LaneB1(ret[1]) = Scaled(LaneB1(args.a0))
       /\ LaneB0(ret[2]) = Scaled(LaneB0(args.a1))

\* The pixel with the colours 128, 127, 128 and alpha 77 has become the
\* colours 39, 38, 39 with alpha 77.
C20_Witness ==
  /\ fn = "b32_2x2PremultiplyA"
  /\ args.a0 = B32_1x2(127, 128)
  /\ args.a1 = B32_1x2(77, 128)
  /\ ret = <<B32_1x2(38, 39), B32_1x2(77, 39)>>

\* Each lane of the word and each byte of the pixel is the rounding division
\* by 255 of that lane's own a * b + c * d.
TwoTermPerLane ==
  /\ fn = "b32_1x2MulDiv255U_2x_Add" =>
       /\ LaneB0(ret) = RoundDiv255(LaneB0(args.a0) * ToNat(args.b0)
                                      + LaneB0(args.c0) * ToNat(args.d0))
       /\ LaneB1(ret) = RoundDiv255(LaneB1(args.a0) * ToNat(args.b0)
                                      + LaneB1(args.c0) * ToNat(args.d0))
  /\ fn = "p32_2x4MulDiv255U32_Add" =>
       \A c \in 1..4 :
         ret[c] = RoundDiv255(args.x0[c] * ToNat(args.a0)
                                + args.y0[c] * ToNat(args.b0))

\* The two weights of the call sum to at most 255.
TwoTermDomain ==
  \/ fn = "b32_1x2MulDiv255U_2x_Add"
       /\ ToNat(args.b0) + ToNat(args.d0) <= ByteMax
  \/ fn = "p32_2x4MulDiv255U32_Add"
       /\ ToNat(args.a0) + ToNat(args.b0) <= ByteMax

\* C21: for all lanes of a0 and c0 in 0..255 and all weights b0, d0 in
\* 0..255, with no constraint on b0 + d0, each lane of
\* b32_1x2MulDiv255U_2x_Add and each byte of p32_2x4MulDiv255U32_Add is the
\* rounding division by 255 of a * b + c * d of that lane's own inputs: the
\* sum of the two products never carries into the neighbouring lane.
C21_TwoTermAnyWeights == TwoTermPerLane

\* C21 as amended: the same for the weights with b0 + d0 <= 255.
C21_TwoTermWeightsWithin255 == TwoTermDomain => TwoTermPerLane

\* The pixels 0x0180FF00 and 0x7F0180FF blended with the weights 128 and 127
\* have given 0x4041C07F.
C21_Witness ==
  /\ fn = "p32_2x4MulDiv255U32_Add"
  /\ args.x0 = Hex32(\h01, \h80, \hFF, \h00) /\ args.a0 = U32(128)
  /\ args.y0 = Hex32(\h7F, \h01, \h80, \hFF) /\ args.b0 = U32(127)
  /\ ret = Hex32(\h40, \h41, \hC0, \h7F)

\* C22: for all lanes of a0, b0 and c0 in 0..255, each lane of
\* b32_1x2AddSubusB32_1x2(dst0, a0, b0, c0) is min(max(a + b - c, 0), 255)
\* of that lane's inputs, with no borrow or carry between the two lanes.
C22_AddSubusPerLane ==
  fn = "b32_1x2AddSubusB32_1x2" =>
    /\ LaneB0(ret) =
         Min(Max(LaneB0(args.a0) + LaneB0(args.b0) - LaneB0(args.c0), 0),
             ByteMax)
    /\ LaneB1(ret) =
         Min(Max(LaneB1(args.a0) + LaneB1(args.b0) - LaneB1(args.c0), 0),
             ByteMax)

\* Lane B0 has saturated (128 + 255 - 0) to 255 while lane B1 has floored
\* (0 + 128 - 255) at 0.
C22_Witness ==
  /\ fn = "b32_1x2AddSubusB32_1x2"
  /\ args.a0 = B32_1x2(0, 128)
  /\ args.b0 = B32_1x2(128, 255)
  /\ args.c0 = B32_1x2(255, 0)
  /\ ret = B32_1x2(0, 255)

\* C23: each single-lane helper changes only its own lane: for every a0 with
\* lanes in 0..255 and every u in 0..255, b32_1x2ZeroB0, FillB0 and SetB0
\* leave lane B1 of a0 unchanged and set B0 to 0x00, 0xFF and u, and
\* b32_1x2ZeroB1, FillB1 and SetB1 leave lane B0 unchanged and set B1 to
\* 0x00, 0xFF and u.
C23_SingleLaneHelpers ==
  /\ fn = "b32_1x2ZeroB0" =>
       LaneB1(ret) = LaneB1(args.a0) /\ LaneB0(ret) = 0
  /\ fn = "b32_1x2FillB0" =>
       LaneB1(ret) = LaneB1(args.a0) /\ LaneB0(ret) = ByteMax
  /\ fn = "b32_1x2SetB0" =>
       LaneB1(ret) = LaneB1(args.a0) /\ LaneB0(ret) = ToNat(args.u)
  /\ fn = "b32_1x2ZeroB1" =>
       LaneB0(ret) = LaneB0(args.a0) /\ LaneB1(ret) = 0
  /\ fn = "b32_1x2FillB1" =>
       LaneB0(ret) = LaneB0(args.a0) /\ LaneB1(ret) = ByteMax
  /\ fn = "b32_1x2SetB1" =>
       LaneB0(ret) = LaneB0(args.a0) /\ LaneB1(ret) = ToNat(args.u)

\* b32_1x2SetB0 has replaced lane B0 = 255 by 128 beside lane B1 = 255.
C23_Witness ==
  /\ fn = "b32_1x2SetB0"
  /\ args.a0 = B32_1x2(255, 255)
  /\ args.u = U32(128)
  /\ ret = B32_1x2(255, 128)

\* The build other than the one the call was made in.
OtherBuild == CHOOSE bits \in FOG_ARCH_BITS : bits # args.bits

\* C24: for each of p32MulDiv255U, p32MulDiv255U_0XXX, p32MulDiv255U_FXXX,
\* p32AddusP32 and p32MulDiv255U_AddusP32 the FOG_ARCH_BITS == 64 branch
\* (one four-lane word) and the 32-bit branch (two two-lane words) return
\* the same 32-bit result, for tight pixels x, y and weights a in 0..255.
C24_BuildsAgree ==
  /\ fn = "p32MulDiv255U" =>
       ret = p32MulDiv255U(OtherBuild, args.x, args.a)
  /\ fn = "p32MulDiv255U_0XXX" =>
       ret = p32MulDiv255U_0XXX(OtherBuild, args.x, args.a)
  /\ fn = "p32MulDiv255U_FXXX" =>
       ret = p32MulDiv255U_FXXX(OtherBuild, args.x, args.a)
  /\ fn = "p32AddusP32" =>
       ret = p32AddusP32(OtherBuild, args.x, args.y)
  /\ fn = "p32MulDiv255U_AddusP32" =>
       ret = p32MulDiv255U_AddusP32(OtherBuild, args.x, args.a, args.y)

\* The 64-bit build has scaled 0x0180FF00 by 128 and added 0x7F0180FF,
\* saturating the second byte: 0x8041FFFF.
C24_Witness ==
  /\ fn = "p32MulDiv255U_AddusP32" /\ args.bits = 64
  /\ args.x = Hex32(\h01, \h80, \hFF, \h00) /\ args.a = U32(\h80)
  /\ args.y = Hex32(\h7F, \h01, \h80, \hFF)
  /\ ret = Hex32(\h80, \h41, \hFF, \hFF)

\* Every _create call so far has returned a value other than NULL and
\* STATE_CREATING_NOW, or is still running.
CreateProper ==
  \A i \in 1..Len(creates) : creates[i] \in CreateValues \cup {"running"}

\* C25: under every interleaving of threads calling LazyBase::_get on one
\* LazyBase whose _ptr starts NULL, _create is invoked at most once in
\* total and never by two threads at the same time (_create returning
\* neither NULL nor STATE_CREATING_NOW).
C25_CreateAtMostOnce ==
  CreateProper =>
    /\ Len(creates) <= 1
    /\ Cardinality({t \in Threads : pc[t] = "_create"}) <= 1

\* One thread is inside the only invocation of _create while a thread that
\* lost the compare-and-swap yields in the loop.
C25_Witness ==
  /\ creates = <<"running">>
  /\ \E t \in Threads :
       /\ pc[t] = "_create"
       /\ \E u \in Threads \ {t} : pc[u] = "yield"

\* C26: under every interleaving of concurrent LazyBase::_get calls, every
\* call that returns yields the value the single _create call returned; no
\* call returns STATE_CREATING_NOW and none returns NULL (_create returning
\* neither NULL nor STATE_CREATING_NOW).
C26_GetReturnsCreated ==
  \A t \in Threads :
    (pc[t] = "return" /\ CreateProper) =>
      /\ Len(creates) = 1 /\ v_get[t] = creates[1]
      /\ v_get[t] # STATE_CREATING_NOW
      /\ v_get[t] # NULL

\* Every thread is returning "instanceB", the value of the one _create
\* call, and one of them from a call after its first.
C26_Witness ==
  /\ creates = <<"instanceB">>
  /\ \A t \in Threads : pc[t] = "return" /\ v_get[t] = "instanceB"
  /\ \E t \in Threads : calls[t] = MaxCalls

\* C27: under fair scheduling of all threads and with a _create that
\* terminates, every call of LazyBase::_get eventually returns: a thread that
\* lost the compare-and-swap and waits in the loop while _ptr is
\* STATE_CREATING_NOW leaves it once the creating thread has stored the
\* created value.
C27_GetEventuallyReturns ==
  \A t \in Threads : (pc[t] \notin {"idle", "return"}) ~> (pc[t] = "return")

\* C27 as amended: the same, provided _create returns neither NULL nor
\* STATE_CREATING_NOW: every call in progress returns, unless a _create call
\* has returned NULL or STATE_CREATING_NOW.
C27_GetReturnsIfCreateProper ==
  \A t \in Threads :
    (pc[t] \notin {"idle", "return"})
      ~> (pc[t] = "return" \/ ~CreateProper)

\* A thread that lost the compare-and-swap is yielding in the loop after
\* the creating thread has stored the created value.
C27_Witness ==
  /\ creates = <<"instanceA">>
  /\ \E t \in Threads : pc[t] = "yield" /\ _ptr = "instanceA"

=============================================================================
